---------------------------- MODULE Spec2Model ----------------------------
(***************************************************************************)
(* State-machine model of the CCotti coordination layer: the System V      *)
(* counting semaphore wrapper (src/src/sem.cpp), the message queue wrapper  *)
(* (src/include/msg_queue.h), the signal and timer facility                *)
(* (src/src/signal.cpp) and the HTTP server built on the shared record     *)
(* (src/src/httpserver.cpp, src/include/httpserver.h).                     *)
(*                                                                         *)
(* The module holds several specifications over one set of variables.      *)
(* Each specification drives one part of the program and leaves the        *)
(* variables of the other parts at their initial values:                   *)
(*   SpecSem      processes calling Sem::op on one semaphore               *)
(*   SpecWorkers  workers bracketing a counter update with op(-1)/op(+1)   *)
(*   SpecIpc      construction / destruction of Sem and MsgQueue handles   *)
(*   SpecQueue    MsgQueue::write, read and peek on one queue              *)
(*   SpecHttp     concurrent HttpServer::on_accept connection handlers     *)
(*   SpecConn     the requests of one connection through on_accept        *)
(*   SpecConf     the accept loop, on_start and update_configuration       *)
(*   SpecSetGet   processes calling Sem::set, Sem::get and Sem::operator=   *)
(*   SpecSignal   one thread using Signal::set_handler, block, unblock,    *)
(*                wait while signals are sent to it                        *)
(*   SpecTimer    the interval timer of Signal::set_timer_*                *)
(*   SpecReload   the accept loop running without end, with fairness       *)
(***************************************************************************)
EXTENDS Integers, Sequences, FiniteSets, TLC

VARIABLES
    \* ---- the semaphore (kernel object behind Sem::semid) ----
    semval,      \* semval of semaphore 0 of the set
    ppc,         \* per process: "idle" or "semop" (inside Sem::op)
    pdelta,      \* per process: the sem_op of its current / last Sem::op
    pwaited,     \* per process: the current / last Sem::op could not proceed when called
    \* ---- workers bracketing a counter update with the semaphore ----
    wpc,         \* per worker: position in its acquire / update / release cycle
    wtmp,        \* per worker: the counter value it loaded
    wchg,        \* per worker: the change (+1 / -1) of its current update
    wrounds,     \* per worker: updates it has started
    counter,     \* the shared counter
    wnet,        \* sum of the changes the workers set out to apply
    \* ---- system objects and handles (Sem, MsgQueue) ----
    semid_cur,   \* id of the semaphore set existing for the key, 0: none
    msgid_cur,   \* id of the message queue existing for the key, 0: none
    msgs,        \* messages of the existing queue, oldest first
    nextid,      \* next id the system hands out
    nctx,        \* execution contexts (threads / processes) started so far
    touched,     \* a user set() reached the existing semaphore
    handles,     \* handle slots: the Sem / MsgQueue objects of the program
    rcv,         \* the receiving thread: its MsgQueue::read / peek call and result
    nsent,       \* MsgQueue::write calls so far (numbers the payloads)
    \* ---- the HTTP server ----
    shm,         \* the serverData record in shared memory (this->shm[0])
    hpc,         \* per connection handler: position inside on_accept
    req,         \* per handler: the HttpRequest req of on_accept
    res,         \* per handler: the HttpResponse res of on_accept
    htmp,        \* per handler: the client_count value held in a register
    sock,        \* per handler: the last buffer written to the socket
    nwrites,     \* per handler: socket.write calls so far
    nreq,        \* per handler: requests read so far
    wire,        \* per handler: method and route of the request line last read
    numGet,      \* GET / requests dispatched
    numDec,      \* POST /dc requests that found client_count > 0
    flag_update_conf,  \* HttpServer::flag_update_conf
    mpc,         \* position of the accept loop / of update_configuration
    nlines,      \* lines update_configuration has read from the open file
    loads,       \* completed runs of update_configuration
    line,        \* the line update_configuration read last and what it printed for it
    conflog,     \* the last message update_configuration printed
    \* ---- the build and the operating-system facilities ----
    build,       \* what the build fixes: signedness of char, width of time_t
    sgpc,        \* per process: "idle" or "assign" (inside Sem::operator=, after set)
    sgcall,      \* per process: the Sem call it completed last
    sgarg,       \* per process: the value of its last set / assignment
    sgret,       \* per process: the value its last get / assignment returned
    sglast,      \* the process whose set was the last change of the semaphore, 0: none
    \* ---- signals of one thread ----
    sigmask,     \* the thread's signal mask: the blocked signals
    sigpend,     \* signals pending for the thread
    sigdisp,     \* per signal: "handler", "ignore" or "default" (sigaction)
    spc,         \* the thread: "running", "suspended" (in sigsuspend) or "terminated"
    waitsig,     \* the signal of the current / last Signal::wait
    oldmask,     \* the mask sigsuspend restores
    nsig,        \* signals sent to the thread so far
    nran,        \* per signal: runs of its handler in the thread
    \* ---- the interval timer ----
    itimer,      \* the ITIMER_REAL timer: it_interval and it_value
    tmret,       \* what the last setitimer returned
    nalarm       \* SIGALRM raised by the timer since it was last set

semVars == <<semval, ppc, pdelta, pwaited>>
workerVars == <<wpc, wtmp, wchg, wrounds, counter, wnet>>
ipcVars == <<semid_cur, msgid_cur, msgs, nextid, nctx, touched, handles>>
queueVars == <<rcv, nsent>>

httpVars == <<hpc, req, res, htmp, sock, nwrites, nreq, wire, numGet, numDec>>
confVars == <<flag_update_conf, mpc, nlines, loads, line, conflog>>

setgetVars == <<sgpc, sgcall, sgarg, sgret, sglast>>
signalVars == <<sigmask, sigpend, sigdisp, spc, waitsig, oldmask, nsig, nran>>
timerVars == <<itimer, tmret, nalarm>>
osVars == <<build, setgetVars, signalVars, timerVars>>

vars == <<semVars, workerVars, ipcVars, queueVars, shm, httpVars, confVars, osVars>>

(***************************************************************************)
(* Bounds of the model.                                                    *)
(***************************************************************************)
NumProcs == 2      \* processes operating the semaphore in SpecSem
MaxDelta == 2      \* |sem_op| passed to Sem::op ranges over 0..MaxDelta
MaxCount == 3      \* cap of semval (stands for SEMVMX)
MaxRounds == 2     \* counter updates per worker in SpecWorkers
MaxHandles == 3    \* handle slots in SpecIpc
MaxCtx == 2        \* execution contexts in SpecIpc
MaxMsgs == 2       \* messages a queue holds
NumHandlers == 2   \* concurrent connection handlers in SpecHttp
MaxRequests == 2   \* requests read per connection
MaxLines == 2      \* lines read from the configuration file per load
MaxLoads == 2      \* runs of update_configuration in SpecConf
MaxSignals == 3    \* signals sent to the thread in SpecSignal
MaxAlarms == 3     \* expiries of the timer after it was set in SpecTimer

Procs  == 1..NumProcs
\* Arguments of Sem::op: the small ones, and three beyond the range of a
\* 16-bit sem_op.
Deltas == ((0 - MaxDelta)..MaxDelta) \cup {0 - 65535, 65535, 65536}

(***************************************************************************)
(* Sem::Sem sets the value of a newly created semaphore with set(1).       *)
(***************************************************************************)
SemInitialValue_Two == 1 + 1

SemInitialValue == 1

(***************************************************************************)
(* Sem::op: semop(semid, {sem_num 0, sem_op op, sem_flg 0}, 1).            *)
(* semop with sem_flg = 0 proceeds at once when                            *)
(*   op > 0                                                                *)
(*   op = 0 and semval = 0                                                 *)
(*   op < 0 and semval >= |op|                                             *)
(* and otherwise puts the caller to sleep until it can.                    *)
(***************************************************************************)
SemCanProceed_OffByOne(v, op) ==
    IF op > 0 THEN TRUE
    ELSE IF op = 0 THEN v = 0
    ELSE v >= (0 - op) - 1

SemCanProceed_ZeroNoWait(v, op) ==
    IF op >= 0 THEN TRUE ELSE v >= 0 - op

SemCanProceed(v, op) ==
    IF op > 0 THEN TRUE
    ELSE IF op = 0 THEN v = 0
    ELSE v >= 0 - op

\* The value semop leaves: semval + sem_op (sem_op = 0 changes nothing).
SemApply(v, op) == v + op

\* sop.sem_op = op: the int argument of Sem::op is stored in the short
\* sem_op field of struct sembuf, which keeps its low ShortBits bits.
ShortBits == 16
ShortOf(op) ==
    ((op + 2 ^ (ShortBits - 1)) % 2 ^ ShortBits) - 2 ^ (ShortBits - 1)

\* Sem::op is entered: the process is inside semop; pdelta keeps the
\* argument the caller passed.
SemOpCall(p, op) ==
    /\ ppc[p] = "idle"
    /\ ppc' = [ppc EXCEPT ![p] = "semop"]
    /\ pdelta' = [pdelta EXCEPT ![p] = op]
    /\ pwaited' = [pwaited EXCEPT ![p] = ~SemCanProceed(semval, ShortOf(op))]
    /\ UNCHANGED semval

\* semop performs the operation atomically and Sem::op returns 0.
SemOpReturn(p) ==
    /\ ppc[p] = "semop"
    /\ SemCanProceed(semval, ShortOf(pdelta[p]))
    /\ SemApply(semval, ShortOf(pdelta[p])) <= MaxCount
    /\ semval' = SemApply(semval, ShortOf(pdelta[p]))
    /\ ppc' = [ppc EXCEPT ![p] = "idle"]
    /\ UNCHANGED <<pdelta, pwaited>>

SemIdle ==
    /\ ppc = [p \in Procs |-> "idle"]
    /\ pdelta = [p \in Procs |-> 0]
    /\ pwaited = [p \in Procs |-> FALSE]

(***************************************************************************)
(* Workers: each update of the shared counter is bracketed by op(-1)       *)
(* before and op(+1) after.  Worker w is process w of the semaphore.       *)
(***************************************************************************)
InCritical(w) == wpc[w] \in {"load", "store", "unlock", "release"}

WorkerAcquire(w) ==
    /\ wpc[w] = "start"
    /\ wrounds[w] < MaxRounds
    /\ SemOpCall(w, -1)
    /\ \E c \in {-1, 1} :
          /\ wchg' = [wchg EXCEPT ![w] = c]
          /\ wnet' = wnet + c
    /\ wrounds' = [wrounds EXCEPT ![w] = @ + 1]
    /\ wpc' = [wpc EXCEPT ![w] = "acquire"]
    /\ UNCHANGED <<wtmp, counter>>

WorkerEnter(w) ==
    /\ wpc[w] = "acquire"
    /\ SemOpReturn(w)
    /\ wpc' = [wpc EXCEPT ![w] = "load"]
    /\ UNCHANGED <<wtmp, wchg, wrounds, counter, wnet>>

WorkerLoad(w) ==
    /\ wpc[w] = "load"
    /\ wtmp' = [wtmp EXCEPT ![w] = counter]
    /\ wpc' = [wpc EXCEPT ![w] = "store"]
    /\ UNCHANGED <<semVars, wchg, wrounds, counter, wnet>>

WorkerStore(w) ==
    /\ wpc[w] = "store"
    /\ counter' = wtmp[w] + wchg[w]
    /\ wpc' = [wpc EXCEPT ![w] = "unlock"]
    /\ UNCHANGED <<semVars, wtmp, wchg, wrounds, wnet>>

WorkerRelease(w) ==
    /\ wpc[w] = "unlock"
    /\ SemOpCall(w, 1)
    /\ wpc' = [wpc EXCEPT ![w] = "release"]
    /\ UNCHANGED <<wtmp, wchg, wrounds, counter, wnet>>

WorkerLeave(w) ==
    /\ wpc[w] = "release"
    /\ SemOpReturn(w)
    /\ wpc' = [wpc EXCEPT ![w] = "start"]
    /\ UNCHANGED <<wtmp, wchg, wrounds, counter, wnet>>

WorkersIdle ==
    /\ wpc = [w \in Procs |-> "start"]
    /\ wtmp = [w \in Procs |-> 0]
    /\ wchg = [w \in Procs |-> 0]
    /\ wrounds = [w \in Procs |-> 0]
    /\ counter = 0
    /\ wnet = 0

(***************************************************************************)
(* System objects.  semget / msgget on the key of (path, id):              *)
(*   no object:  IPC_CREAT creates one, otherwise ENOENT                   *)
(*   an object:  IPC_CREAT | IPC_EXCL fails with EEXIST, otherwise the id  *)
(*               of the existing object is returned                        *)
(***************************************************************************)
KeyGet(cur, flags) ==
    IF cur = 0
    THEN IF "IPC_CREAT" \in flags THEN "created" ELSE "error"
    ELSE IF "IPC_CREAT" \in flags /\ "IPC_EXCL" \in flags THEN "error" ELSE "found"

SemCreateFlags_NoExcl == {"IPC_CREAT"}

SemCreateFlags == {"IPC_CREAT", "IPC_EXCL"}
SemAttachFlags == {}
MsgCreateFlags == {"IPC_CREAT", "IPC_EXCL"}
MsgAttachFlags == {}

\* char Sem::get: the int of semctl(GETVAL) converted to char.
CharOf(v) == ((v + 128) % 256) - 128

Slots == 1..MaxHandles
Payloads == {"a"}
SetValues == {0, 2}      \* values users pass to Sem::set

FreeHandle ==
    [st |-> "free", kind |-> "sem", creator |-> FALSE, id |-> 0, pid |-> 0,
     ctx |-> 0, obs |-> {}]

\* The slot the next constructed handle takes.
IsNextSlot(s) ==
    /\ handles[s].st = "free"
    /\ \A t \in Slots : t < s => handles[t].st # "free"

NewHandle(st, kind, creator, id, c) ==
    [st |-> st, kind |-> kind, creator |-> creator, id |-> id, pid |-> c,
     ctx |-> c, obs |-> {}]

\* Sem::Sem(path, id, create): the semget call.  A created set holds
\* semval 0 until the constructor's set(1).
SemCtorGet(s, c, create) ==
    /\ IsNextSlot(s)
    /\ c \in 1..nctx
    /\ LET r == KeyGet(semid_cur, IF create THEN SemCreateFlags ELSE SemAttachFlags)
       IN  CASE r = "error" ->
                  /\ handles' = [handles EXCEPT ![s] = NewHandle("failed", "sem", create, 0, c)]
                  /\ UNCHANGED <<semid_cur, semval, nextid, touched>>
             [] r = "created" ->
                  /\ handles' = [handles EXCEPT ![s] = NewHandle("semget", "sem", create, nextid, c)]
                  /\ semid_cur' = nextid
                  /\ nextid' = nextid + 1
                  /\ semval' = 0
                  /\ touched' = FALSE
             [] r = "found" ->
                  /\ handles' = [handles EXCEPT ![s] =
                        NewHandle(IF create THEN "semget" ELSE "live", "sem", create, semid_cur, c)]
                  /\ UNCHANGED <<semid_cur, semval, nextid, touched>>
    /\ UNCHANGED <<msgid_cur, msgs, nctx>>

\* Sem::Sem with create: this->set(1) after the semget.
SemCtorSet(s) ==
    /\ handles[s].st = "semget"
    /\ IF handles[s].id = semid_cur
       THEN /\ semval' = SemInitialValue
            /\ handles' = [handles EXCEPT ![s].st = "live"]
       ELSE /\ handles' = [handles EXCEPT ![s].st = "failed"]
            /\ UNCHANGED semval
    /\ UNCHANGED <<semid_cur, msgid_cur, msgs, nextid, nctx, touched>>

\* Sem::set(value) by a user of the handle.
SemSet(h, v) ==
    /\ handles[h].st = "live"
    /\ handles[h].kind = "sem"
    /\ IF handles[h].id = semid_cur
       THEN semval' = v /\ touched' = TRUE
       ELSE UNCHANGED <<semval, touched>>
    /\ UNCHANGED <<semid_cur, msgid_cur, msgs, nextid, nctx, handles>>

\* Sem::get by a user of the handle; the handle remembers what it read
\* while no user set() had reached the semaphore.
SemGet(h) ==
    /\ handles[h].st = "live"
    /\ handles[h].kind = "sem"
    /\ handles[h].id = semid_cur
    /\ ~touched
    /\ handles' = [handles EXCEPT ![h].obs = @ \cup {CharOf(semval)}]
    /\ UNCHANGED <<semval, semid_cur, msgid_cur, msgs, nextid, nctx, touched>>

\* Sem::~Sem removes the set when the handle is flagged creator.
SemRemoves_Always(h) == TRUE

SemRemoves(h) == handles[h].creator

\* MsgQueue::~MsgQueue removes the queue when the handle is flagged
\* creator and runs in the thread that constructed it.
MsgRemoves(h) == handles[h].creator /\ handles[h].pid = handles[h].ctx

SemDestroy(h) ==
    /\ handles[h].st = "live"
    /\ handles[h].kind = "sem"
    /\ handles' = [handles EXCEPT ![h].st = "dead"]
    /\ IF SemRemoves(h) /\ handles[h].id = semid_cur
       THEN semid_cur' = 0
       ELSE UNCHANGED semid_cur
    /\ UNCHANGED <<semval, msgid_cur, msgs, nextid, nctx, touched>>

\* MsgQueue::MsgQueue(path, id, create).
MsgCtor(s, c, create) ==
    /\ IsNextSlot(s)
    /\ c \in 1..nctx
    /\ LET r == KeyGet(msgid_cur, IF create THEN MsgCreateFlags ELSE MsgAttachFlags)
       IN  CASE r = "error" ->
                  /\ handles' = [handles EXCEPT ![s] = NewHandle("failed", "msgq", create, 0, c)]
                  /\ UNCHANGED <<msgid_cur, msgs, nextid>>
             [] r = "created" ->
                  /\ handles' = [handles EXCEPT ![s] = NewHandle("live", "msgq", create, nextid, c)]
                  /\ msgid_cur' = nextid
                  /\ nextid' = nextid + 1
                  /\ msgs' = <<>>
             [] r = "found" ->
                  /\ handles' = [handles EXCEPT ![s] = NewHandle("live", "msgq", create, msgid_cur, c)]
                  /\ UNCHANGED <<msgid_cur, msgs, nextid>>
    /\ UNCHANGED <<semval, semid_cur, nctx, touched>>

\* MsgQueue::write(msg, mtype): a type <= 0 is sent as type 1.
MsgType(mtype) == IF mtype <= 0 THEN 1 ELSE mtype

MsgWrite(h, msg, mtype) ==
    /\ handles[h].st = "live"
    /\ handles[h].kind = "msgq"
    /\ handles[h].id = msgid_cur
    /\ Len(msgs) < MaxMsgs
    /\ msgs' = Append(msgs, [mtype |-> MsgType(mtype), msg |-> msg])
    /\ UNCHANGED <<semval, semid_cur, msgid_cur, nextid, nctx, touched, handles>>

MsgDestroy(h) ==
    /\ handles[h].st = "live"
    /\ handles[h].kind = "msgq"
    /\ handles' = [handles EXCEPT ![h].st = "dead"]
    /\ IF MsgRemoves(h) /\ handles[h].id = msgid_cur
       THEN msgid_cur' = 0 /\ msgs' = <<>>
       ELSE UNCHANGED <<msgid_cur, msgs>>
    /\ UNCHANGED <<semval, semid_cur, nextid, nctx, touched>>

\* fork / thread hand-over: the handle object is duplicated into a new
\* execution context, field by field.
Duplicate(h, s) ==
    /\ handles[h].st = "live"
    /\ IsNextSlot(s)
    /\ nctx < MaxCtx
    /\ nctx' = nctx + 1
    /\ handles' = [handles EXCEPT ![s] = [handles[h] EXCEPT !.ctx = nctx + 1, !.obs = {}]]
    /\ UNCHANGED <<semval, semid_cur, msgid_cur, msgs, nextid, touched>>

IpcIdle ==
    /\ semid_cur = 0
    /\ msgid_cur = 0
    /\ msgs = <<>>
    /\ nextid = 1
    /\ nctx = 1
    /\ touched = FALSE
    /\ handles = [s \in Slots |-> FreeHandle]

(***************************************************************************)
(* MsgQueue::read and MsgQueue::peek: msgrcv(msg_id, &output, size,        *)
(* (long) mtype, flags).  Without MSG_COPY the type argument selects       *)
(*   0      the oldest message                                             *)
(*   t > 0  the oldest message of type t                                   *)
(*   t < 0  the oldest message of the lowest type that is <= |t|           *)
(* and the message is taken out of the queue; with no such message the     *)
(* caller sleeps, or with IPC_NOWAIT the call fails with ENOMSG.  With     *)
(* MSG_COPY | IPC_NOWAIT the argument is a position (from 0) and the       *)
(* message there is copied, not removed; no message there fails with       *)
(* ENOMSG.  A queue that was removed fails the call with EINVAL, or with   *)
(* EIDRM when the caller was already inside.                               *)
(***************************************************************************)
MaxTag == 2        \* message types sent range over 0..MaxTag
MaxSends == 3      \* MsgQueue::write calls in SpecQueue

SentTags == 0..MaxTag
Selectors == (0 - MaxTag)..MaxTag
PeekIndexes == (0 - 1)..MaxMsgs
QueueHandles == {1, 2}

\* The flags callers of read pass, and the flags peek passes.
ReadFlags == {{}, {"IPC_NOWAIT"}}

PeekFlags == {"IPC_NOWAIT", "MSG_COPY"}

\* The payload MsgQueue::write sends in SpecQueue: the number of the call
\* and the mtype its caller passed.
Payload(n, t) == [seq |-> n, tag |-> t]

\* output.msg of a read that received nothing: whatever the stack holds.
JunkMsg == Payload(0, 0)
JunkValues(q) == {JunkMsg} \cup {q[i].msg : i \in 1..Len(q)}

MsgFirstOfType_Last(q, t) ==
    IF \E i \in 1..Len(q) : q[i].mtype = t
    THEN CHOOSE i \in 1..Len(q) :
            q[i].mtype = t /\ \A j \in (i + 1)..Len(q) : q[j].mtype # t
    ELSE 0

\* Position of the oldest message of type t, 0: none.
MsgFirstOfType(q, t) ==
    IF \E i \in 1..Len(q) : q[i].mtype = t
    THEN CHOOSE i \in 1..Len(q) :
            q[i].mtype = t /\ \A j \in 1..(i - 1) : q[j].mtype # t
    ELSE 0

\* The walk for a negative type argument: from position i on, with lim the
\* highest type still of interest and found the best position so far.
RECURSIVE MsgLowest(_, _, _, _)
MsgLowest(q, i, lim, found) ==
    IF i > Len(q) THEN found
    ELSE IF q[i].mtype <= lim
    THEN IF q[i].mtype = 1 THEN i ELSE MsgLowest(q, i + 1, q[i].mtype - 1, i)
    ELSE MsgLowest(q, i + 1, lim, found)

MsgLowestUpTo_AnyEligible(q, k) ==
    IF \E i \in 1..Len(q) : q[i].mtype <= k
    THEN CHOOSE i \in 1..Len(q) :
            q[i].mtype <= k /\ \A j \in 1..(i - 1) : q[j].mtype > k
    ELSE 0

MsgLowestUpTo(q, k) == MsgLowest(q, 1, k, 0)

\* Position of the message msgrcv selects for the type argument, 0: none.
MsgFind(q, msgtyp) ==
    IF msgtyp = 0 THEN (IF Len(q) > 0 THEN 1 ELSE 0)
    ELSE IF msgtyp > 0 THEN MsgFirstOfType(q, msgtyp)
    ELSE MsgLowestUpTo(q, 0 - msgtyp)

\* MSG_COPY: position n counted from 0.
MsgCopyIndex(q, n) == IF n >= 0 /\ n < Len(q) THEN n + 1 ELSE 0

RemoveAt(q, i) == SubSeq(q, 1, i - 1) \o SubSeq(q, i + 1, Len(q))

\* The queue a successful msgrcv leaves.
MsgAfterReceive_Removes(q, i, flags) == RemoveAt(q, i)

MsgAfterReceive(q, i, flags) ==
    IF "MSG_COPY" \in flags THEN q ELSE RemoveAt(q, i)

\* msgrcv does not sleep.
MsgNoWait_Never(flags) == FALSE

MsgNoWait(flags) == "IPC_NOWAIT" \in flags

\* MsgQueue::read(mtype, status, flags) is entered: the thread is inside
\* msgrcv.  status tells whether the caller passed a status pointer.
MsgReadCall(h, mtype, status, flags) ==
    /\ rcv.pc = "idle"
    /\ handles[h].st = "live"
    /\ handles[h].kind = "msgq"
    /\ rcv' = [pc |-> "msgrcv", h |-> h, mtype |-> mtype, flags |-> flags,
               status |-> status, state |-> "none", msg |-> JunkMsg,
               alive |-> (handles[h].id = msgid_cur)]
    /\ UNCHANGED <<semval, ipcVars, nsent>>

\* MsgQueue::peek(index, status): read(index, status, IPC_NOWAIT | MSG_COPY).
MsgPeekCall(h, index, status) == MsgReadCall(h, index, status, PeekFlags)

\* msgrcv returns and read hands output.msg to its caller; *status gets 0
\* or errno.
MsgReadReturn ==
    /\ rcv.pc = "msgrcv"
    /\ LET gone == handles[rcv.h].id # msgid_cur
           i == IF gone THEN 0
                ELSE IF "MSG_COPY" \in rcv.flags THEN MsgCopyIndex(msgs, rcv.mtype)
                ELSE MsgFind(msgs, rcv.mtype)
       IN  IF i > 0
           THEN /\ msgs' = MsgAfterReceive(msgs, i, rcv.flags)
                /\ rcv' = [rcv EXCEPT !.pc = "idle", !.h = 0, !.alive = FALSE,
                                      !.state = IF rcv.status THEN "0" ELSE "none",
                                      !.msg = msgs[i].msg]
           ELSE /\ IF gone THEN TRUE ELSE MsgNoWait(rcv.flags)
                /\ msgs' = msgs
                /\ \E junk \in JunkValues(msgs) :
                      rcv' = [rcv EXCEPT
                                !.pc = "idle", !.h = 0, !.alive = FALSE,
                                !.state = IF ~rcv.status THEN "none"
                                          ELSE IF ~gone THEN "ENOMSG"
                                          ELSE IF rcv.alive THEN "EIDRM" ELSE "EINVAL",
                                !.msg = junk]
    /\ UNCHANGED <<semval, semid_cur, msgid_cur, nextid, nctx, touched, handles, nsent>>

\* MsgQueue::write(msg, mtype) with the payload numbered by the call.
MsgSend(h, mtype) ==
    /\ nsent < MaxSends
    /\ MsgWrite(h, Payload(nsent + 1, mtype), mtype)
    /\ nsent' = nsent + 1
    /\ UNCHANGED rcv

QueueIdle ==
    /\ rcv = [pc |-> "idle", h |-> 0, mtype |-> 0, flags |-> {}, status |-> FALSE,
              state |-> "none", msg |-> JunkMsg, alive |-> FALSE]
    /\ nsent = 0

(***************************************************************************)
(* The HTTP server: include/httpserver.h, src/httpserver.cpp.              *)
(***************************************************************************)
DEFAULT_BACKLOG == 2
DEFAULT_MAX_CLIENTS == 1000
DEFAULT_SENSOR_PERIOD == 1000
DEFAULT_SAMPLES_MOVING_AVERAGE_FILTER == 5

Handlers == 1..NumHandlers

\* HttpServer::HttpServer: shm << data with every field 0.
ShmZero ==
    [backlog |-> 0, max_clients |-> 0, sensor_period |-> 0,
     samples_moving_average_filter |-> 0, client_count |-> 0]

\* HttpServer::not_found.
NotFound == [route |-> "/not_found.html", mime_type |-> "HTML", code |-> "NOT_FOUND", conn |-> "CLOSE"]

\* The sprintf of GET /update: the text written into res.route.
UpdateJson(d) ==
    "{\"backlog\": " \o ToString(d.backlog)
    \o ",\"max_clients\": " \o ToString(d.max_clients)
    \o ",\"sensor_period\": " \o ToString(d.sensor_period)
    \o ",\"samples_moving_average_filter\": " \o ToString(d.samples_moving_average_filter)
    \o ",\"clients\": " \o ToString(d.client_count) \o "}"

\* HttpServer::request: the parse of the request line "m r ...".  A method
\* other than GET and POST leaves *req as it was.
ParseRequest(old, m, r) ==
    IF m = "GET" THEN [method |-> "GET", route |-> r]
    ELSE IF m = "POST" THEN [method |-> "POST", route |-> r]
    ELSE old

\* on_accept: the response chosen for req (res before this->response).
Dispatch(q, d) ==
    IF q.method = "GET" /\ q.route = "/"
    THEN [route |-> "/index.html", mime_type |-> "HTML", code |-> "OK", conn |-> "CLOSE"]
    ELSE IF q.method = "GET" /\ q.route = "/images/favicon.ico"
    THEN [route |-> q.route, mime_type |-> "FAVICON", code |-> "OK", conn |-> "CLOSE"]
    ELSE IF q.method = "GET" /\ q.route = "/images/404.jpg"
    THEN [route |-> q.route, mime_type |-> "JPG", code |-> "OK", conn |-> "CLOSE"]
    ELSE IF q.method = "GET" /\ q.route = "/update"
    THEN [route |-> UpdateJson(d), mime_type |-> "JSON", code |-> "OK", conn |-> "CLOSE"]
    ELSE NotFound

\* on_accept: where the handler goes after the dispatch.
AfterDispatch(q) ==
    IF q.method = "GET" /\ q.route = "/" THEN "inc_load"
    ELSE IF q.method = "POST" /\ q.route = "/dc" THEN "dc_test"
    ELSE "respond"

\* One pass of the while loop of on_accept up to its first access of
\* client_count: this->request reads and parses a request, res is chosen.
Request(h, m, r) ==
    /\ hpc[h] = "request"
    /\ nreq[h] < MaxRequests
    /\ nreq' = [nreq EXCEPT ![h] = @ + 1]
    /\ wire' = [wire EXCEPT ![h] = <<m, r>>]
    /\ LET q == ParseRequest(req[h], m, r)
       IN  /\ req' = [req EXCEPT ![h] = q]
           /\ res' = [res EXCEPT ![h] = Dispatch(q, shm)]
           /\ hpc' = [hpc EXCEPT ![h] = AfterDispatch(q)]
           /\ numGet' = IF m = "GET" /\ r = "/" THEN numGet + 1 ELSE numGet
    /\ UNCHANGED <<shm, htmp, sock, nwrites, numDec>>

\* socket.read returns <= 0: this->request returns -1 and on_accept ends.
Close(h) ==
    /\ hpc[h] = "request"
    /\ hpc' = [hpc EXCEPT ![h] = "closed"]
    /\ UNCHANGED <<shm, req, res, htmp, sock, nwrites, nreq, wire, numGet, numDec>>

\* this->shm[0].client_count++ : the load ...
IncLoad(h) ==
    /\ hpc[h] = "inc_load"
    /\ htmp' = [htmp EXCEPT ![h] = shm.client_count]
    /\ hpc' = [hpc EXCEPT ![h] = "inc_store"]
    /\ UNCHANGED <<shm, req, res, sock, nwrites, nreq, wire, numGet, numDec>>

\* ... and the store.
IncStore(h) ==
    /\ hpc[h] = "inc_store"
    /\ shm' = [shm EXCEPT !.client_count = htmp[h] + 1]
    /\ hpc' = [hpc EXCEPT ![h] = "respond"]
    /\ UNCHANGED <<req, res, htmp, sock, nwrites, nreq, wire, numGet, numDec>>

DcTest_NoFloor(h) ==
    /\ hpc[h] = "dc_test"
    /\ hpc' = [hpc EXCEPT ![h] = "dc_load"]
    /\ numDec' = numDec + 1
    /\ UNCHANGED <<shm, req, res, htmp, sock, nwrites, nreq, wire, numGet>>

\* if (this->shm[0].client_count > 0)
DcTest(h) ==
    /\ hpc[h] = "dc_test"
    /\ hpc' = [hpc EXCEPT ![h] = IF shm.client_count > 0 THEN "dc_load" ELSE "request"]
    /\ numDec' = IF shm.client_count > 0 THEN numDec + 1 ELSE numDec
    /\ UNCHANGED <<shm, req, res, htmp, sock, nwrites, nreq, wire, numGet>>

\* this->shm[0].client_count-- : the load ...
DcLoad(h) ==
    /\ hpc[h] = "dc_load"
    /\ htmp' = [htmp EXCEPT ![h] = shm.client_count]
    /\ hpc' = [hpc EXCEPT ![h] = "dc_store"]
    /\ UNCHANGED <<shm, req, res, sock, nwrites, nreq, wire, numGet, numDec>>

\* ... and the store; continue.
DcStore(h) ==
    /\ hpc[h] = "dc_store"
    /\ shm' = [shm EXCEPT !.client_count = htmp[h] - 1]
    /\ hpc' = [hpc EXCEPT ![h] = "request"]
    /\ UNCHANGED <<req, res, htmp, sock, nwrites, nreq, wire, numGet, numDec>>

\* HttpServer::response.  fs is what the file system does with a file
\* target: "ok" (read, > 0 bytes), "empty" (fread returns 0), "missing"
\* (fopen returns NULL).  The outcomes:
\*   literal target      header of res and the target itself as body
\*   file, ok            header of res and the file's bytes
\*   file, empty         res = not_found(); a 404 header with
\*                       Content-Length 0 and no body
\*   file, missing       res = not_found(); fclose(NULL) and the use of the
\*                       unset bytes_read are undefined: the handler dies,
\*                       or writes a 404 header with a length and a body it
\*                       never set
\* res.route[0] == '/': the routes of the program that start with '/'.
IsFileTarget(r) == r.route \in {"/index.html", "/not_found.html",
                                "/images/favicon.ico", "/images/404.jpg"}

Written(code, mime, len, body) ==
    [died |-> FALSE, code |-> code, mime_type |-> mime, len |-> len, body |-> body]

ResponseOutcomes(r, fs) ==
    IF ~IsFileTarget(r)
    THEN {Written(r.code, r.mime_type, "body", r.route)}
    ELSE IF fs = "ok"
    THEN {Written(r.code, r.mime_type, "body", "file " \o r.route)}
    ELSE IF fs = "empty"
    THEN {Written("NOT_FOUND", "HTML", "body", "")}
    ELSE {Written("NOT_FOUND", "HTML", "unset", "unset"),
          [died |-> TRUE, code |-> "none", mime_type |-> "none", len |-> "none", body |-> ""]}

Respond(h, fs) ==
    /\ hpc[h] = "respond"
    /\ \E out \in ResponseOutcomes(res[h], fs) :
          IF out.died
          THEN /\ hpc' = [hpc EXCEPT ![h] = "died"]
               /\ UNCHANGED <<sock, nwrites>>
          ELSE /\ hpc' = [hpc EXCEPT ![h] = "request"]
               /\ sock' = [sock EXCEPT ![h] = out]
               /\ nwrites' = [nwrites EXCEPT ![h] = @ + 1]
    /\ UNCHANGED <<shm, req, res, htmp, nreq, wire, numGet, numDec>>

\* on_accept is entered with req and res not yet set.
Unset == [method |-> "unset", route |-> "unset"]
NoWrite == [died |-> FALSE, code |-> "none", mime_type |-> "none", len |-> "none", body |-> ""]

HttpIdle ==
    /\ hpc = [h \in Handlers |-> "request"]
    /\ req = [h \in Handlers |-> Unset]
    /\ res = [h \in Handlers |-> NotFound]
    /\ htmp = [h \in Handlers |-> 0]
    /\ sock = [h \in Handlers |-> NoWrite]
    /\ nwrites = [h \in Handlers |-> 0]
    /\ nreq = [h \in Handlers |-> 0]
    /\ wire = [h \in Handlers |-> <<"none", "none">>]
    /\ numGet = 0
    /\ numDec = 0

(***************************************************************************)
(* The accept loop around on_start, and update_configuration.              *)
(***************************************************************************)
ConfKeys == {"backlog", "max_clients", "sensor_period", "samples_moving_average_filter"}

DefaultOf(key) ==
    CASE key = "backlog" -> DEFAULT_BACKLOG
      [] key = "max_clients" -> DEFAULT_MAX_CLIENTS
      [] key = "sensor_period" -> DEFAULT_SENSOR_PERIOD
      [] key = "samples_moving_average_filter" -> DEFAULT_SAMPLES_MOVING_AVERAGE_FILTER

\* atoi: blanks are skipped, then an optional sign, then digits up to the
\* first character that is none; no digit gives 0.
Digits == <<"0", "1", "2", "3", "4", "5", "6", "7", "8", "9">>
IsDigit(c) == \E i \in 1..10 : Digits[i] = c
DigitOf(c) == (CHOOSE i \in 1..10 : Digits[i] = c) - 1

RECURSIVE AtoiDigits(_, _, _)
AtoiDigits(str, i, acc) ==
    IF i > Len(str) \/ ~IsDigit(str[i]) THEN acc
    ELSE AtoiDigits(str, i + 1, acc * 10 + DigitOf(str[i]))

RECURSIVE SkipBlanks(_, _)
SkipBlanks(str, i) ==
    IF i <= Len(str) /\ str[i] = " " THEN SkipBlanks(str, i + 1) ELSE i

Atoi(str) ==
    LET i == SkipBlanks(str, 1)
    IN  IF i > Len(str) THEN 0
        ELSE IF str[i] = "-" THEN 0 - AtoiDigits(str, i + 1, 0)
        ELSE IF str[i] = "+" THEN AtoiDigits(str, i + 1, 0)
        ELSE AtoiDigits(str, i, 0)

\* The texts after "=" that the model feeds to the loader; <<>> is the
\* line "key=", for which strtok(NULL, "=") returns NULL.
ConfValues ==
    {<<"5">>, <<"3">>, <<"0">>, <<"-", "3">>, <<"a", "b", "c">>, <<"7", "x">>, <<>>}

\* changed_value = (atoi(value) != 0) ? atoi(value) : DEFAULT_...
ChangedValue(key, value) ==
    IF Atoi(value) # 0 THEN Atoi(value) ELSE DefaultOf(key)

\* on_start: if (HttpServer::flag_update_conf)
MainTest ==
    /\ mpc = "on_start"
    /\ mpc' = IF flag_update_conf THEN "clear" ELSE "accept"
    /\ UNCHANGED <<shm, flag_update_conf, nlines, loads, line, conflog>>

\* on_start: HttpServer::flag_update_conf = false; update_configuration is entered.
MainClear ==
    /\ mpc = "clear"
    /\ flag_update_conf' = FALSE
    /\ mpc' = "open"
    /\ UNCHANGED <<shm, nlines, loads, line, conflog>>

\* loads counts the completed runs of update_configuration up to MaxLoads
CountLoad(n) == IF n < MaxLoads THEN n + 1 ELSE n

\* update_configuration: fopen.  Without the file every field gets its default.
ConfOpen(present) ==
    /\ mpc = "open"
    /\ IF present
       THEN /\ mpc' = "read"
            /\ nlines' = 0
            /\ UNCHANGED <<shm, loads, conflog>>
       ELSE /\ shm' = [shm EXCEPT !.backlog = DEFAULT_BACKLOG,
                                  !.max_clients = DEFAULT_MAX_CLIENTS,
                                  !.sensor_period = DEFAULT_SENSOR_PERIOD,
                                  !.samples_moving_average_filter =
                                       DEFAULT_SAMPLES_MOVING_AVERAGE_FILTER]
            /\ conflog' = "no_file"
            /\ loads' = CountLoad(loads)
            /\ mpc' = "accept"
            /\ UNCHANGED nlines
    /\ UNCHANGED <<flag_update_conf, line>>

\* A line read by update_configuration and the message printed for it.
LineRead(key, value, msg) == [key |-> key, value |-> value, msg |-> msg]

\* update_configuration: one pass of the fgets loop over a line "key=value".
ConfLine(key, value) ==
    /\ mpc = "read"
    /\ nlines < MaxLines
    /\ nlines' = nlines + 1
    /\ IF key \notin ConfKeys
       THEN /\ conflog' = "unknown_key"
            /\ line' = LineRead(key, value, "unknown_key")
            /\ UNCHANGED <<shm, mpc>>
       ELSE IF value = <<>>
       THEN \* atoi(NULL)
            /\ mpc' = "died"
            /\ line' = LineRead(key, value, "none")
            /\ UNCHANGED <<shm, conflog>>
       ELSE LET cv == ChangedValue(key, value)
            IN  IF cv = shm[key]
                THEN /\ line' = LineRead(key, value, "none")
                     /\ UNCHANGED <<shm, mpc, conflog>>
                ELSE /\ shm' = IF cv >= 1 THEN [shm EXCEPT ![key] = cv] ELSE shm
                     /\ conflog' = IF cv <= 0 THEN "invalid_value" ELSE "set"
                     /\ line' = LineRead(key, value, IF cv <= 0 THEN "invalid_value" ELSE "set")
                     /\ UNCHANGED mpc
    /\ UNCHANGED <<flag_update_conf, loads>>

\* update_configuration: a line without "=" is skipped.
ConfLineNoSeparator ==
    /\ mpc = "read"
    /\ nlines < MaxLines
    /\ nlines' = nlines + 1
    /\ line' = LineRead("", <<>>, "none")
    /\ UNCHANGED <<shm, mpc, flag_update_conf, loads, conflog>>

ConfEof_ClearsFlag ==
    /\ mpc = "read"
    /\ loads' = CountLoad(loads)
    /\ mpc' = "accept"
    /\ flag_update_conf' = FALSE
    /\ UNCHANGED <<shm, nlines, line, conflog>>

\* update_configuration: fgets returns NULL, fclose, return.
ConfEof ==
    /\ mpc = "read"
    /\ loads' = CountLoad(loads)
    /\ mpc' = "accept"
    /\ UNCHANGED <<shm, flag_update_conf, nlines, line, conflog>>

\* The server loop around on_start: after on_start returns, accept is
\* called ...
MainAcceptCall ==
    /\ mpc = "accept"
    /\ mpc' = "blocked"
    /\ UNCHANGED <<shm, flag_update_conf, nlines, loads, line, conflog>>

\* ... a connection is accepted and on_accept handles it ...
MainAccept ==
    /\ mpc = "blocked"
    /\ mpc' = "on_accept"
    /\ UNCHANGED <<shm, flag_update_conf, nlines, loads, line, conflog>>

\* ... and when on_accept returns the loop comes back to on_start.
MainHandled ==
    /\ mpc = "on_accept"
    /\ mpc' = "on_start"
    /\ UNCHANGED <<shm, flag_update_conf, nlines, loads, line, conflog>>

\* HttpServer::sigusr1_handler, installed without SA_RESTART: it sets the
\* flag wherever the main thread is; a thread blocked in accept is
\* interrupted (EINTR) and the loop comes back to on_start.
Sigusr1 ==
    /\ mpc # "died"
    /\ flag_update_conf' = TRUE
    /\ mpc' = IF mpc = "blocked" THEN "on_start" ELSE mpc
    /\ UNCHANGED <<shm, nlines, loads, line, conflog>>

\* The server as HttpServer::HttpServer leaves it.
ConfIdle ==
    /\ shm = ShmZero
    /\ flag_update_conf = TRUE
    /\ mpc = "on_start"
    /\ nlines = 0
    /\ loads = 0
    /\ line = LineRead("", <<>>, "none")
    /\ conflog = "none"

(***************************************************************************)
(* What the build fixes: whether plain char is signed, and the width of    *)
(* time_t.                                                                 *)
(***************************************************************************)
Builds == [char_signed : BOOLEAN, time_bits : {32, 64}]
BuildIdle == build = [char_signed |-> TRUE, time_bits |-> 64]

(***************************************************************************)
(* Sem::set, Sem::get and Sem::operator= (src/src/sem.cpp).                *)
(***************************************************************************)
SetGetValues == {0, 127, 128, 256}

\* the int of semctl(GETVAL) converted to the char that Sem::get returns
CharValue(v) == IF build.char_signed THEN CharOf(v) ELSE v % 256

\* Sem::set(value): semctl(SETVAL)
SgSet(p, v) ==
    /\ sgpc[p] = "idle"
    /\ semval' = v
    /\ sgcall' = [sgcall EXCEPT ![p] = "set"]
    /\ sgarg' = [sgarg EXCEPT ![p] = v]
    /\ sglast' = p
    /\ UNCHANGED <<build, sgpc, sgret>>

\* Sem::get(): semctl(GETVAL) returned as char
SgGet(p) ==
    /\ sgpc[p] = "idle"
    /\ sgcall' = [sgcall EXCEPT ![p] = "get"]
    /\ sgret' = [sgret EXCEPT ![p] = CharValue(semval)]
    /\ UNCHANGED <<build, semval, sgpc, sgarg, sglast>>

\* Sem::operator=(a): this->set(a) ...
SgAssignSet(p, a) ==
    /\ sgpc[p] = "idle"
    /\ semval' = a
    /\ sgpc' = [sgpc EXCEPT ![p] = "assign"]
    /\ sgarg' = [sgarg EXCEPT ![p] = a]
    /\ sglast' = p
    /\ UNCHANGED <<build, sgcall, sgret>>

\* ... return this->get()
SgAssignGet(p) ==
    /\ sgpc[p] = "assign"
    /\ sgpc' = [sgpc EXCEPT ![p] = "idle"]
    /\ sgcall' = [sgcall EXCEPT ![p] = "assign"]
    /\ sgret' = [sgret EXCEPT ![p] = CharValue(semval)]
    /\ UNCHANGED <<build, semval, sgarg, sglast>>

SetGetIdle ==
    /\ sgpc = [p \in Procs |-> "idle"]
    /\ sgcall = [p \in Procs |-> "none"]
    /\ sgarg = [p \in Procs |-> 0]
    /\ sgret = [p \in Procs |-> 0]
    /\ sglast = 0

(***************************************************************************)
(* Signals of one thread (src/src/signal.cpp): dispositions set by         *)
(* Signal::set_handler, the thread's mask changed by Signal::block,        *)
(* unblock and unblock_all, signals sent with Signal::kill, and            *)
(* Signal::wait.                                                           *)
(***************************************************************************)
Signals == {"SIGUSR1", "SIGALRM", "SIGKILL"}
\* SIGKILL cannot be caught, blocked or ignored
Unblockable == {"SIGKILL"}
Catchable == Signals \ Unblockable
Dispositions == {"handler", "ignore", "default"}

\* pending signals the mask lets through
Deliverable == {s \in sigpend : s \notin sigmask}
\* the thread executes its program: it is not suspended, and a signal
\* that can be delivered is delivered before its next statement
ThreadRuns == spc = "running" /\ Deliverable = {}

\* Signal::set_handler / ignore / set_default_handler: sigaction, which
\* fails for SIGKILL; setting SIG_IGN discards the pending signal
SetHandler(sig, disp) ==
    /\ ThreadRuns
    /\ sig \in Catchable
    /\ sigdisp' = [sigdisp EXCEPT ![sig] = disp]
    /\ sigpend' = IF disp = "ignore" THEN sigpend \ {sig} ELSE sigpend
    /\ UNCHANGED <<sigmask, spc, waitsig, oldmask, nsig, nran>>

\* Signal::block: pthread_sigmask(SIG_BLOCK, {signal})
BlockMask_Set(sig) == {sig} \ Unblockable
BlockMask(sig) == (sigmask \cup {sig}) \ Unblockable

Block(sig) ==
    /\ ThreadRuns
    /\ sigmask' = BlockMask(sig)
    /\ UNCHANGED <<sigpend, sigdisp, spc, waitsig, oldmask, nsig, nran>>

\* Signal::unblock: pthread_sigmask(SIG_UNBLOCK, {signal})
Unblock(sig) ==
    /\ ThreadRuns
    /\ sigmask' = sigmask \ {sig}
    /\ UNCHANGED <<sigpend, sigdisp, spc, waitsig, oldmask, nsig, nran>>

\* Signal::unblock_all: pthread_sigmask(SIG_SETMASK, {})
UnblockAll ==
    /\ ThreadRuns
    /\ sigmask' = {}
    /\ UNCHANGED <<sigpend, sigdisp, spc, waitsig, oldmask, nsig, nran>>

\* Signal::kill(thread, signal) by any sender: the signal is generated
\* for the thread; SIGKILL ends it at once
Raise(sig) ==
    /\ spc # "terminated"
    /\ nsig < MaxSignals
    /\ nsig' = nsig + 1
    /\ IF sig \in Unblockable
       THEN spc' = "terminated" /\ UNCHANGED sigpend
       ELSE sigpend' = sigpend \cup {sig} /\ UNCHANGED spc
    /\ UNCHANGED <<sigmask, sigdisp, waitsig, oldmask, nran>>

\* the mask Signal::wait hands to sigsuspend: sigfillset, sigdelset(signal)
WaitMask_Empty(sig) == {}
WaitMask(sig) == (Signals \ {sig}) \ Unblockable

\* Signal::wait up to sigsuspend: the mask is replaced and the thread sleeps
WaitCall(sig) ==
    /\ ThreadRuns
    /\ oldmask' = sigmask
    /\ sigmask' = WaitMask(sig)
    /\ spc' = "suspended"
    /\ waitsig' = sig
    /\ UNCHANGED <<sigpend, sigdisp, nsig, nran>>

\* delivery of a pending signal the mask lets through: an ignored signal
\* is dropped, the default action ends the thread, a handler runs; after
\* a handler has run sigsuspend restores the mask and Signal::wait
\* returns 0
SigHandle(sig) ==
    /\ spc # "terminated"
    /\ sig \in Deliverable
    /\ sigpend' = sigpend \ {sig}
    /\ IF sigdisp[sig] = "handler"
       THEN /\ nran' = [nran EXCEPT ![sig] = @ + 1]
            /\ IF spc = "suspended"
               THEN spc' = "running" /\ sigmask' = oldmask
               ELSE UNCHANGED <<spc, sigmask>>
       ELSE IF sigdisp[sig] = "default"
       THEN spc' = "terminated" /\ UNCHANGED <<nran, sigmask>>
       ELSE UNCHANGED <<nran, spc, sigmask>>
    /\ UNCHANGED <<sigdisp, waitsig, oldmask, nsig>>

SignalIdle ==
    /\ sigmask = {}
    /\ sigpend = {}
    /\ sigdisp = [s \in Signals |-> "default"]
    /\ spc = "running"
    /\ waitsig = "none"
    /\ oldmask = {}
    /\ nsig = 0
    /\ nran = [s \in Signals |-> 0]

(***************************************************************************)
(* The ITIMER_REAL timer behind Signal::set_timer_single_shot,             *)
(* set_timer_periodic, unset_timer and get_timer_time                      *)
(* (src/src/signal.cpp).                                                   *)
(***************************************************************************)
Periods == {1, 999, 1000, 1001, 1500, 60000, 2147483, 2147484}

TvZero == [sec |-> 0, usec |-> 0]
TimerOff == [interval |-> TvZero, value |-> TvZero]

\* msec*1000 leaves the range of a 32-bit time_t
Overflows(msec) == build.time_bits = 32 /\ msec > 2147483647 \div 1000

\* msec*1000 as 32-bit two's-complement arithmetic leaves it, computed in
\* 16-bit limbs
Wrap32Times1000(msec) ==
    LET lo == msec % 65536
        hi == msec \div 65536
        pl == 1000 * lo
        ph == (1000 * hi + pl \div 65536) % 65536
    IN  ((IF ph >= 32768 THEN ph - 65536 ELSE ph) * 65536) + (pl % 65536)

\* the % of C, which truncates toward zero
CRem(a, b) == IF a >= 0 THEN a % b ELSE IF a % b = 0 THEN 0 ELSE (a % b) - b

\* (msec*1000) % 1000000.  Where the product fits time_t this is the
\* remainder of the product (written without the product where the
\* product leaves the range of the checker's integers); where it does not,
\* the signed overflow is undefined: the build may wrap the product or
\* reduce msec before multiplying.
UsecOutcomes(msec) ==
    IF ~Overflows(msec)
    THEN {IF msec <= 2147483647 \div 1000
          THEN (msec * 1000) % 1000000
          ELSE (msec % 1000) * 1000}
    ELSE {CRem(Wrap32Times1000(msec), 1000000), (msec % 1000) * 1000}

\* setitimer(ITIMER_REAL, new, NULL): EINVAL for a tv_usec outside
\* 0..999999, else the one timer of the process is replaced; nalarm counts
\* the alarms since the timer was last set
ValidTv(tv) == tv.sec >= 0 /\ tv.usec \in 0..999999

Setitimer(new) ==
    IF ValidTv(new.interval) /\ ValidTv(new.value)
    THEN /\ itimer' = new
         /\ tmret' = 0
         /\ nalarm' = 0
    ELSE /\ tmret' = 0 - 1
         /\ UNCHANGED <<itimer, nalarm>>

\* Signal::set_timer_single_shot(msec)
SetTimerSingleShot(msec) ==
    \E us \in UsecOutcomes(msec) :
       Setitimer([interval |-> TvZero,
                  value |-> [sec |-> msec \div 1000, usec |-> us]])

\* Signal::set_timer_periodic(msec)
SetTimerPeriodic(msec) ==
    \E us \in UsecOutcomes(msec) :
       LET iv == [sec |-> msec \div 1000, usec |-> us]
       IN  Setitimer([interval |-> iv, value |-> iv])

\* Signal::unset_timer()
UnsetTimer == Setitimer(TimerOff)

\* Signal::get_timer_time(): a timeval in milliseconds
TimerMs(tv) == tv.sec * 1000 + tv.usec \div 1000

\* the armed timer expires: SIGALRM is raised and the timer is reloaded
\* with its interval (an interval of zero leaves it disarmed)
TimerExpire ==
    /\ itimer.value # TvZero
    /\ nalarm < MaxAlarms
    /\ nalarm' = nalarm + 1
    /\ itimer' = [itimer EXCEPT !.value = itimer.interval]
    /\ UNCHANGED tmret

TimerIdle ==
    /\ itimer = TimerOff
    /\ tmret = 0
    /\ nalarm = 0

OsIdle ==
    /\ BuildIdle
    /\ SetGetIdle
    /\ SignalIdle
    /\ TimerIdle

(***************************************************************************)
(* SpecSem: NumProcs processes issue arbitrary Sem::op calls on a          *)
(* semaphore that holds any legal value.                                   *)
(***************************************************************************)
InitSem ==
    /\ semval \in 0..MaxCount
    /\ SemIdle
    /\ WorkersIdle
    /\ OsIdle
    /\ IpcIdle
    /\ QueueIdle
    /\ HttpIdle
    /\ ConfIdle

NextSem ==
    \/ \E p \in Procs, op \in Deltas : SemOpCall(p, op) /\ UNCHANGED <<workerVars, ipcVars, queueVars, shm, httpVars, confVars, osVars>>
    \/ \E p \in Procs : SemOpReturn(p) /\ UNCHANGED <<workerVars, ipcVars, queueVars, shm, httpVars, confVars, osVars>>

SpecSem == InitSem /\ [][NextSem]_vars

(***************************************************************************)
(* SpecWorkers: the semaphore as its creator's constructor leaves it, and  *)
(* NumProcs workers updating the counter.                                  *)
(***************************************************************************)
InitWorkers ==
    /\ semval = SemInitialValue
    /\ SemIdle
    /\ WorkersIdle
    /\ OsIdle
    /\ IpcIdle
    /\ QueueIdle
    /\ HttpIdle
    /\ ConfIdle

NextWorkers ==
    \/ \E w \in Procs : WorkerAcquire(w) /\ UNCHANGED <<ipcVars, queueVars, shm, httpVars, confVars, osVars>>
    \/ \E w \in Procs : WorkerEnter(w) /\ UNCHANGED <<ipcVars, queueVars, shm, httpVars, confVars, osVars>>
    \/ \E w \in Procs : WorkerLoad(w) /\ UNCHANGED <<ipcVars, queueVars, shm, httpVars, confVars, osVars>>
    \/ \E w \in Procs : WorkerStore(w) /\ UNCHANGED <<ipcVars, queueVars, shm, httpVars, confVars, osVars>>
    \/ \E w \in Procs : WorkerRelease(w) /\ UNCHANGED <<ipcVars, queueVars, shm, httpVars, confVars, osVars>>
    \/ \E w \in Procs : WorkerLeave(w) /\ UNCHANGED <<ipcVars, queueVars, shm, httpVars, confVars, osVars>>

SpecWorkers == InitWorkers /\ [][NextWorkers]_vars

(***************************************************************************)
(* SpecIpc: handles of the semaphore and of the message queue of one key   *)
(* are constructed, used, duplicated and destroyed.                        *)
(***************************************************************************)
InitIpc ==
    /\ semval = 0
    /\ SemIdle
    /\ WorkersIdle
    /\ OsIdle
    /\ IpcIdle
    /\ QueueIdle
    /\ HttpIdle
    /\ ConfIdle

ipcRest == <<ppc, pdelta, pwaited, workerVars, queueVars, shm, httpVars, confVars, osVars>>

NextIpc ==
    \/ \E s \in Slots, c \in 1..MaxCtx, create \in BOOLEAN :
          SemCtorGet(s, c, create) /\ UNCHANGED ipcRest
    \/ \E s \in Slots : SemCtorSet(s) /\ UNCHANGED ipcRest
    \/ \E h \in Slots, v \in SetValues : SemSet(h, v) /\ UNCHANGED ipcRest
    \/ \E h \in Slots : SemGet(h) /\ UNCHANGED ipcRest
    \/ \E h \in Slots : SemDestroy(h) /\ UNCHANGED ipcRest
    \/ \E s \in Slots, c \in 1..MaxCtx, create \in BOOLEAN :
          MsgCtor(s, c, create) /\ UNCHANGED ipcRest
    \/ \E h \in Slots, m \in Payloads, t \in {0, 2} : MsgWrite(h, m, t) /\ UNCHANGED ipcRest
    \/ \E h \in Slots : MsgDestroy(h) /\ UNCHANGED ipcRest
    \/ \E h \in Slots, s \in Slots : Duplicate(h, s) /\ UNCHANGED ipcRest

SpecIpc == InitIpc /\ [][NextIpc]_vars

(***************************************************************************)
(* SpecQueue: a queue with its creator handle (slot 1) and an attached     *)
(* handle (slot 2); senders write through either handle, one thread reads  *)
(* and peeks, and the handles are destroyed at any moment.                 *)
(***************************************************************************)
InitQueue ==
    /\ semval = 0
    /\ SemIdle
    /\ WorkersIdle
    /\ OsIdle
    /\ semid_cur = 0
    /\ msgid_cur = 1
    /\ msgs = <<>>
    /\ nextid = 2
    /\ nctx = 1
    /\ touched = FALSE
    /\ handles = [s \in Slots |->
                    IF s = 1 THEN NewHandle("live", "msgq", TRUE, 1, 1)
                    ELSE IF s = 2 THEN NewHandle("live", "msgq", FALSE, 1, 1)
                    ELSE FreeHandle]
    /\ QueueIdle
    /\ HttpIdle
    /\ ConfIdle

queueRest == <<ppc, pdelta, pwaited, workerVars, shm, httpVars, confVars, osVars>>

NextQueue ==
    \/ \E h \in QueueHandles, t \in SentTags : MsgSend(h, t) /\ UNCHANGED queueRest
    \/ \E h \in QueueHandles, t \in Selectors, st \in BOOLEAN, f \in ReadFlags :
          MsgReadCall(h, t, st, f) /\ UNCHANGED queueRest
    \/ \E h \in QueueHandles, n \in PeekIndexes, st \in BOOLEAN :
          MsgPeekCall(h, n, st) /\ UNCHANGED queueRest
    \/ MsgReadReturn /\ UNCHANGED queueRest
    \/ \E h \in QueueHandles : MsgDestroy(h) /\ UNCHANGED <<queueRest, queueVars>>

SpecQueue == InitQueue /\ [][NextQueue]_vars

(***************************************************************************)
(* SpecHttp: NumHandlers connection handlers run on_accept concurrently on *)
(* the shared record, after a first configuration load without file.  The  *)
(* clients send GET /, GET /update and POST /dc.                           *)
(***************************************************************************)
ConcRequests == {<<"GET", "/">>, <<"GET", "/update">>, <<"POST", "/dc">>}
FileOutcomes == {"ok", "empty", "missing"}

ShmDefaults ==
    [backlog |-> DEFAULT_BACKLOG, max_clients |-> DEFAULT_MAX_CLIENTS,
     sensor_period |-> DEFAULT_SENSOR_PERIOD,
     samples_moving_average_filter |-> DEFAULT_SAMPLES_MOVING_AVERAGE_FILTER,
     client_count |-> 0]

InitHttp ==
    /\ semval = 0
    /\ SemIdle
    /\ WorkersIdle
    /\ OsIdle
    /\ IpcIdle
    /\ QueueIdle
    /\ HttpIdle
    /\ shm = ShmDefaults
    /\ flag_update_conf = FALSE
    /\ mpc = "accept"
    /\ nlines = 0
    /\ loads = 1
    /\ line = LineRead("", <<>>, "none")
    /\ conflog = "no_file"

httpRest == <<semVars, workerVars, ipcVars, queueVars, confVars, osVars>>

NextHttp ==
    \/ \E h \in Handlers, q \in ConcRequests : Request(h, q[1], q[2]) /\ UNCHANGED httpRest
    \/ \E h \in Handlers : Close(h) /\ UNCHANGED httpRest
    \/ \E h \in Handlers : IncLoad(h) /\ UNCHANGED httpRest
    \/ \E h \in Handlers : IncStore(h) /\ UNCHANGED httpRest
    \/ \E h \in Handlers : DcTest(h) /\ UNCHANGED httpRest
    \/ \E h \in Handlers : DcLoad(h) /\ UNCHANGED httpRest
    \/ \E h \in Handlers : DcStore(h) /\ UNCHANGED httpRest
    \/ \E h \in Handlers, fs \in FileOutcomes : Respond(h, fs) /\ UNCHANGED httpRest

SpecHttp == InitHttp /\ [][NextHttp]_vars

(***************************************************************************)
(* SpecConn: one connection handled by on_accept (handler 1), its client   *)
(* sending any sequence of requests.  HttpRequest req of on_accept is not  *)
(* initialized: it starts with whatever the stack holds.                   *)
(***************************************************************************)
RouteTable ==
    {<<"GET", "/">>, <<"GET", "/images/favicon.ico">>, <<"GET", "/images/404.jpg">>,
     <<"GET", "/update">>, <<"POST", "/dc">>}
OtherRequests == {<<"GET", "/nope">>, <<"POST", "/">>, <<"PUT", "/">>, <<"PUT", "/dc">>}
ConnRequests == RouteTable \cup OtherRequests

GarbageReqs == {Unset, [method |-> "GET", route |-> "/"], [method |-> "POST", route |-> "/dc"]}

InitConn ==
    /\ semval = 0
    /\ SemIdle
    /\ WorkersIdle
    /\ OsIdle
    /\ IpcIdle
    /\ QueueIdle
    /\ hpc = [h \in Handlers |-> "request"]
    /\ \E g \in GarbageReqs : req = [h \in Handlers |-> IF h = 1 THEN g ELSE Unset]
    /\ res = [h \in Handlers |-> NotFound]
    /\ htmp = [h \in Handlers |-> 0]
    /\ sock = [h \in Handlers |-> NoWrite]
    /\ nwrites = [h \in Handlers |-> 0]
    /\ nreq = [h \in Handlers |-> 0]
    /\ wire = [h \in Handlers |-> <<"none", "none">>]
    /\ numGet = 0
    /\ numDec = 0
    /\ \E c \in {0, 1} : shm = [ShmDefaults EXCEPT !.client_count = c]
    /\ flag_update_conf = FALSE
    /\ mpc = "accept"
    /\ nlines = 0
    /\ loads = 1
    /\ line = LineRead("", <<>>, "none")
    /\ conflog = "no_file"

NextConn ==
    \/ \E q \in ConnRequests : Request(1, q[1], q[2]) /\ UNCHANGED httpRest
    \/ Close(1) /\ UNCHANGED httpRest
    \/ IncLoad(1) /\ UNCHANGED httpRest
    \/ IncStore(1) /\ UNCHANGED httpRest
    \/ DcTest(1) /\ UNCHANGED httpRest
    \/ DcLoad(1) /\ UNCHANGED httpRest
    \/ DcStore(1) /\ UNCHANGED httpRest
    \/ \E fs \in FileOutcomes : Respond(1, fs) /\ UNCHANGED httpRest

SpecConn == InitConn /\ [][NextConn]_vars

(***************************************************************************)
(* SpecConf: the accept loop of a freshly constructed server; the          *)
(* configuration file may be missing or hold any lines, and SIGUSR1 may    *)
(* arrive at any moment.                                                   *)
(***************************************************************************)
InitConf ==
    /\ semval = 0
    /\ SemIdle
    /\ WorkersIdle
    /\ OsIdle
    /\ IpcIdle
    /\ QueueIdle
    /\ HttpIdle
    /\ ConfIdle

confRest == <<semVars, workerVars, ipcVars, queueVars, httpVars, osVars>>

NextConf ==
    \/ MainTest /\ UNCHANGED confRest
    \/ MainClear /\ UNCHANGED confRest
    \/ \E present \in BOOLEAN : loads < MaxLoads /\ ConfOpen(present) /\ UNCHANGED confRest
    \/ \E key \in ConfKeys \cup {"unknown"}, value \in ConfValues :
          ConfLine(key, value) /\ UNCHANGED confRest
    \/ ConfLineNoSeparator /\ UNCHANGED confRest
    \/ ConfEof /\ UNCHANGED confRest
    \/ MainAcceptCall /\ UNCHANGED confRest
    \/ MainAccept /\ UNCHANGED confRest
    \/ MainHandled /\ UNCHANGED confRest
    \/ Sigusr1 /\ UNCHANGED confRest

SpecConf == InitConf /\ [][NextConf]_vars

(***************************************************************************)
(* SpecSetGet: NumProcs processes set, read and assign the semaphore its   *)
(* creator's constructor left at its initial value, on either kind of      *)
(* build.                                                                  *)
(***************************************************************************)
InitSetGet ==
    /\ semval = SemInitialValue
    /\ SemIdle
    /\ WorkersIdle
    /\ IpcIdle
    /\ QueueIdle
    /\ HttpIdle
    /\ ConfIdle
    /\ \E cs \in BOOLEAN : build = [char_signed |-> cs, time_bits |-> 64]
    /\ SetGetIdle
    /\ SignalIdle
    /\ TimerIdle

setgetRest == <<ppc, pdelta, pwaited, workerVars, ipcVars, queueVars, shm, httpVars, confVars, signalVars, timerVars>>

NextSetGet ==
    \/ \E p \in Procs, v \in SetGetValues : SgSet(p, v) /\ UNCHANGED setgetRest
    \/ \E p \in Procs : SgGet(p) /\ UNCHANGED setgetRest
    \/ \E p \in Procs, a \in SetGetValues : SgAssignSet(p, a) /\ UNCHANGED setgetRest
    \/ \E p \in Procs : SgAssignGet(p) /\ UNCHANGED setgetRest

SpecSetGet == InitSetGet /\ [][NextSetGet]_vars

(***************************************************************************)
(* SpecSignal: one thread installs dispositions, changes its mask and      *)
(* calls Signal::wait while up to MaxSignals signals are sent to it.       *)
(***************************************************************************)
InitSignal ==
    /\ semval = 0
    /\ SemIdle
    /\ WorkersIdle
    /\ OsIdle
    /\ IpcIdle
    /\ QueueIdle
    /\ HttpIdle
    /\ ConfIdle

signalRest == <<semVars, workerVars, ipcVars, queueVars, shm, httpVars, confVars, build, setgetVars, timerVars>>

NextSignal ==
    \/ \E s \in Signals, d \in Dispositions : SetHandler(s, d) /\ UNCHANGED signalRest
    \/ \E s \in Signals : Block(s) /\ UNCHANGED signalRest
    \/ \E s \in Signals : Unblock(s) /\ UNCHANGED signalRest
    \/ UnblockAll /\ UNCHANGED signalRest
    \/ \E s \in Signals : Raise(s) /\ UNCHANGED signalRest
    \/ \E s \in Signals : WaitCall(s) /\ UNCHANGED signalRest
    \/ \E s \in Signals : SigHandle(s) /\ UNCHANGED signalRest

SpecSignal == InitSignal /\ [][NextSignal]_vars

(***************************************************************************)
(* SpecTimer: the timer is armed, rearmed and disarmed with any period,    *)
(* and expires, on a build with a 32-bit or a 64-bit time_t.               *)
(***************************************************************************)
InitTimer ==
    /\ semval = 0
    /\ SemIdle
    /\ WorkersIdle
    /\ IpcIdle
    /\ QueueIdle
    /\ HttpIdle
    /\ ConfIdle
    /\ \E b \in {32, 64} : build = [char_signed |-> TRUE, time_bits |-> b]
    /\ SetGetIdle
    /\ SignalIdle
    /\ TimerIdle

timerRest == <<semVars, workerVars, ipcVars, queueVars, shm, httpVars, confVars, build, setgetVars, signalVars>>

NextTimer ==
    \/ \E p \in Periods : SetTimerSingleShot(p) /\ UNCHANGED timerRest
    \/ \E p \in Periods : SetTimerPeriodic(p) /\ UNCHANGED timerRest
    \/ UnsetTimer /\ UNCHANGED timerRest
    \/ TimerExpire /\ UNCHANGED timerRest

SpecTimer == InitTimer /\ [][NextTimer]_vars

(***************************************************************************)
(* SpecReload: the accept loop running without end, SIGUSR1 arriving at    *)
(* any moment and any number of times.  The statements of the main thread  *)
(* are executed when it can run (weak fairness); whether a connection      *)
(* ever arrives at a blocked accept is left open.                          *)
(***************************************************************************)
ReloadKeys == {"backlog", "unknown"}
ReloadValues == {<<"5">>, <<"0">>, <<>>}

MainStep ==
    \/ MainTest
    \/ MainClear
    \/ \E present \in BOOLEAN : ConfOpen(present)
    \/ ConfEof
    \/ MainAcceptCall
    \/ MainHandled

NextReload ==
    \/ MainTest /\ UNCHANGED confRest
    \/ MainClear /\ UNCHANGED confRest
    \/ \E present \in BOOLEAN : ConfOpen(present) /\ UNCHANGED confRest
    \/ \E key \in ReloadKeys, value \in ReloadValues :
          ConfLine(key, value) /\ UNCHANGED confRest
    \/ ConfEof /\ UNCHANGED confRest
    \/ MainAcceptCall /\ UNCHANGED confRest
    \/ MainAccept /\ UNCHANGED confRest
    \/ MainHandled /\ UNCHANGED confRest
    \/ Sigusr1 /\ UNCHANGED confRest

SpecReload ==
    /\ InitConf
    /\ [][NextReload]_vars
    /\ WF_vars(MainStep /\ UNCHANGED confRest)

(***************************************************************************)
(* Properties of the semaphore (SpecSem).                                  *)
(***************************************************************************)

\* C4: for all sequences of Sem::op calls by any number of processes, the
\* semaphore's count is never negative.
C4_CountNeverNegative == semval >= 0

\* C4 witness: a decrement is pending at count 0 after another process
\* completed a decrement.
C4_Witness ==
    /\ semval = 0
    /\ \E p, q \in Procs :
          /\ p # q
          /\ ppc[p] = "semop" /\ pdelta[p] < 0
          /\ ppc[q] = "idle" /\ pdelta[q] < 0

\* C5: op(-k) with k above the count neither returns nor changes the
\* count; it returns only from a state with count >= k, subtracting k in
\* that one step and leaving a count >= 0.  The count is lowered only by a
\* returning decrement and raised only by a returning positive op.
C5_DecrementBlocksUntilAvailable ==
    [][ /\ \A p \in Procs :
              (ppc[p] = "semop" /\ pdelta[p] < 0) =>
                 IF ppc'[p] = "idle"
                 THEN /\ semval >= 0 - pdelta[p]
                      /\ semval' = semval + pdelta[p]
                      /\ semval' >= 0
                 ELSE ppc'[p] = "semop" /\ pdelta'[p] = pdelta[p]
        /\ \A p \in Procs :
              (ppc[p] = "semop" /\ pdelta[p] < 0 /\ semval < 0 - pdelta[p]) =>
                 ppc'[p] = "semop"
        /\ semval' < semval =>
              \E q \in Procs :
                 /\ ppc[q] = "semop" /\ ppc'[q] = "idle" /\ pdelta[q] < 0
                 /\ semval' = semval + pdelta[q]
        /\ semval' > semval =>
              \E q \in Procs :
                 /\ ppc[q] = "semop" /\ ppc'[q] = "idle" /\ pdelta[q] > 0
                 /\ semval' = semval + pdelta[q]
      ]_vars

\* The statement of C5 for the arguments a 16-bit sem_op holds unchanged
\* (here 1 <= k <= MaxDelta): such an op(-k) stays inside while the count
\* is below k and returns only by subtracting k from a count >= k.
DecrementBlocksInShortRange ==
    [][ \A p \in Procs :
           (ppc[p] = "semop" /\ pdelta[p] < 0 /\ pdelta[p] >= 0 - MaxDelta) =>
              /\ ppc'[p] = "idle" =>
                    /\ semval >= 0 - pdelta[p]
                    /\ semval' = semval + pdelta[p]
                    /\ semval' >= 0
              /\ semval < 0 - pdelta[p] => (ppc'[p] = "semop" /\ pdelta'[p] = pdelta[p])
      ]_vars

\* C5 witness: an op(-2) that had to wait has returned.
C5_Witness ==
    \E p \in Procs :
       ppc[p] = "idle" /\ pwaited[p] /\ pdelta[p] = 0 - 2

\* C6: op(0) returns only from a state whose count is 0 and leaves the
\* count unchanged; while the count is positive the caller stays inside.
C6_ZeroWaitReturnsAtZero ==
    [][ \A p \in Procs :
           (ppc[p] = "semop" /\ pdelta[p] = 0) =>
              /\ ppc'[p] = "idle" => (semval = 0 /\ semval' = 0)
              /\ semval > 0 => ppc'[p] = "semop"
      ]_vars

\* C6 witness: an op(0) that had to wait for the count to drain has returned.
C6_Witness ==
    \E p \in Procs :
       ppc[p] = "idle" /\ pwaited[p] /\ pdelta[p] = 0 /\ semval = 0

(***************************************************************************)
(* Properties of the bracketing workers (SpecWorkers).                     *)
(***************************************************************************)

\* C7: with the semaphore created at count 1, at most one worker is
\* between its op(-1) and its op(+1), and whenever no update is under way
\* the counter equals the net sum of the workers' changes.
C7_MutualExclusionAndNetSum ==
    /\ Cardinality({w \in Procs : InCritical(w)}) <= 1
    /\ (\A w \in Procs : wpc[w] = "start") => counter = wnet

\* C7 witness: one worker waits in op(-1) while another, in its last
\* round, is inside the bracket.
C7_Witness ==
    \E w, v \in Procs :
       /\ w # v
       /\ wpc[w] = "acquire" /\ pwaited[w]
       /\ wpc[v] = "unlock" /\ wrounds[v] = MaxRounds

(***************************************************************************)
(* Properties of construction and destruction (SpecIpc).                   *)
(***************************************************************************)
objVars == <<semid_cur, semval, msgid_cur, msgs>>

KeyCur(kind) == IF kind = "sem" THEN semid_cur ELSE msgid_cur

\* A constructor with create = true / false ran on slot s in this step.
CreateAttempt(s) ==
    /\ handles[s].st = "free" /\ handles'[s].st # "free"
    /\ handles'[s].creator /\ handles'[s].ctx = handles'[s].pid

AttachAttempt(s) ==
    /\ handles[s].st = "free" /\ handles'[s].st # "free"
    /\ ~handles'[s].creator /\ handles'[s].ctx = handles'[s].pid

DestroyStep(h) == handles[h].st = "live" /\ handles'[h].st = "dead"

\* The handle is in the execution context that constructed it.
InCreatingContext(h) == handles[h].ctx = handles[h].pid

\* C8: every value a second (attached) handle reads with get() before any
\* user set()/op() is the initial count 1.
C8_AttachObservesInitialOne ==
    \A h \in Slots :
       (handles[h].kind = "sem" /\ ~handles[h].creator) =>
          \A v \in handles[h].obs : v = 1

\* C9: create = true on a key whose object exists fails and leaves the
\* object unchanged; create = false on a key without object fails and
\* creates nothing.
C9_StrictCreateAndAttach ==
    [][ \A s \in Slots :
           /\ (CreateAttempt(s) /\ KeyCur(handles'[s].kind) # 0) =>
                 (handles'[s].st = "failed" /\ UNCHANGED objVars)
           /\ (AttachAttempt(s) /\ KeyCur(handles'[s].kind) = 0) =>
                 (handles'[s].st = "failed" /\ UNCHANGED objVars)
      ]_vars

\* C9 witness: an attach failed on the key without object, and a create
\* failed on the key of a queue that holds a message.
C9_Witness ==
    \E s, u \in Slots :
       /\ handles[s].st = "failed" /\ handles[s].creator /\ handles[s].kind = "msgq"
       /\ handles[u].st = "failed" /\ ~handles[u].creator /\ handles[u].kind = "msgq"
       /\ u < s
       /\ Len(msgs) > 0

\* C10: destroying an attached handle changes no system object; destroying
\* the creator handle (in the context that constructed it) leaves no object
\* with its id; afterwards no attach reaches that object, and an attach on
\* the key without object fails.
C10_CreatorOnlyTeardown ==
    [][ /\ \A h \in Slots :
              /\ (DestroyStep(h) /\ ~handles[h].creator) => UNCHANGED objVars
              /\ (DestroyStep(h) /\ handles[h].creator /\ InCreatingContext(h)) =>
                    IF handles[h].kind = "sem"
                    THEN semid_cur' # handles[h].id
                    ELSE msgid_cur' # handles[h].id
        /\ \A s, d \in Slots :
              (/\ AttachAttempt(s)
               /\ handles[d].st = "dead" /\ handles[d].creator /\ InCreatingContext(d)
               /\ handles[d].kind = handles'[s].kind) =>
                 /\ handles'[s].id # handles[d].id
                 /\ KeyCur(handles[d].kind) = 0 => handles'[s].st = "failed"
      ]_vars

\* C10 witness (queue): the creator and an attached handle are destroyed,
\* the queue is gone and a later attach has failed.
C10_Witness ==
    \E c, a, t \in Slots :
       /\ handles[c].kind = "msgq" /\ handles[c].st = "dead" /\ handles[c].creator
       /\ handles[a].kind = "msgq" /\ handles[a].st = "dead" /\ ~handles[a].creator
       /\ handles[a].id = handles[c].id
       /\ handles[t].kind = "msgq" /\ handles[t].st = "failed" /\ ~handles[t].creator
       /\ c < t /\ a < t
       /\ msgid_cur = 0

\* C11: destroying a creator handle in an execution context other than
\* the one that constructed it (a duplicate after fork / in another thread)
\* removes no system object, for the semaphore and for the message queue.
C11_DuplicateDoesNotRemove ==
    [][ \A h \in Slots :
           (DestroyStep(h) /\ handles[h].creator /\ ~InCreatingContext(h)) =>
              UNCHANGED objVars
      ]_vars

\* The statement of C11 for the message queue alone, whose destructor
\* compares the constructing thread with the current one.
DuplicateKeepsQueue ==
    [][ \A h \in Slots :
           (/\ DestroyStep(h) /\ handles[h].kind = "msgq"
            /\ handles[h].creator /\ ~InCreatingContext(h)) =>
              UNCHANGED objVars
      ]_vars

\* A duplicated creator handle of an existing queue has been destroyed in
\* the other context while the queue holds a message.
DuplicateKeepsQueue_Witness ==
    \E h \in Slots :
       /\ handles[h].kind = "msgq" /\ handles[h].st = "dead"
       /\ handles[h].creator /\ ~InCreatingContext(h)
       /\ handles[h].id = msgid_cur /\ Len(msgs) > 0

(***************************************************************************)
(* Properties of the message queue (SpecQueue).                            *)
(***************************************************************************)

\* The receiving thread returns from msgrcv in this step.
ReceiveReturns == rcv.pc = "msgrcv" /\ rcv'.pc = "idle"

\* The call in progress is a receive (not a peek) on the existing queue.
ReceivingFromQueue ==
    /\ "MSG_COPY" \notin rcv.flags
    /\ handles[rcv.h].id = msgid_cur

\* The tag a message is sent with, when a tag <= 0 counts as tag 1.
SentAs(m) == IF m.tag <= 0 THEN 1 ELSE m.tag

\* Positions of the queued messages with the oldest send first among them.
OldestOf(S, i) == i \in S /\ \A j \in S : msgs[i].msg.seq <= msgs[j].msg.seq

\* C12 as stated: a receive with exact selector t returns the earliest-sent
\* queued message among those sent with tag t and removes that message
\* only, whatever other tags lie between; so successive receives return
\* the messages sent with tag t in the order they were sent.
C12_FifoWithinTag ==
    [][ (ReceiveReturns /\ ReceivingFromQueue /\ rcv.mtype > 0) =>
           LET T == {i \in 1..Len(msgs) : msgs[i].msg.tag = rcv.mtype}
           IN  IF T = {} THEN msgs' = msgs
               ELSE \E i \in T : /\ OldestOf(T, i)
                                 /\ rcv'.msg = msgs[i].msg
                                 /\ msgs' = RemoveAt(msgs, i)
      ]_vars

\* C12 amended: the same, where a message sent with a tag <= 0 counts as
\* sent with tag 1.
C12_FifoWithinSentAsTag ==
    [][ (ReceiveReturns /\ ReceivingFromQueue /\ rcv.mtype > 0) =>
           LET T == {i \in 1..Len(msgs) : SentAs(msgs[i].msg) = rcv.mtype}
           IN  IF T = {} THEN msgs' = msgs
               ELSE \E i \in T : /\ OldestOf(T, i)
                                 /\ rcv'.msg = msgs[i].msg
                                 /\ msgs' = RemoveAt(msgs, i)
      ]_vars

\* C12 witness: a blocking receive with selector 1 returned a message that
\* was sent with tag 0, after a message of another tag that is still queued.
C12_Witness ==
    /\ rcv.pc = "idle" /\ rcv.mtype = 1 /\ rcv.flags = {}
    /\ rcv.msg.seq > 0 /\ rcv.msg.tag = 0
    /\ \E i \in 1..Len(msgs) :
          msgs[i].mtype # 1 /\ msgs[i].msg.seq < rcv.msg.seq

\* C13: a receive with selector -k returns the oldest message among those
\* carrying the lowest tag in the queue that is <= k, and removes it;
\* with no tag <= k queued it takes nothing.
C13_BoundedTagSelector ==
    [][ (ReceiveReturns /\ ReceivingFromQueue /\ rcv.mtype < 0) =>
           LET k == 0 - rcv.mtype
               E == {i \in 1..Len(msgs) : msgs[i].mtype <= k}
           IN  IF E = {} THEN msgs' = msgs
               ELSE \E i \in E :
                       /\ \A j \in E : msgs[i].mtype <= msgs[j].mtype
                       /\ \A j \in E : msgs[j].mtype = msgs[i].mtype => i <= j
                       /\ rcv'.msg = msgs[i].msg
                       /\ msgs' = RemoveAt(msgs, i)
      ]_vars

\* C13 witness: a receive with selector -2 returned a message of tag 1
\* while an older message of tag 2 stays queued.
C13_Witness ==
    /\ rcv.pc = "idle" /\ rcv.mtype = 0 - 2 /\ "MSG_COPY" \notin rcv.flags
    /\ rcv.msg.seq > 0 /\ SentAs(rcv.msg) = 1
    /\ \E i \in 1..Len(msgs) :
          msgs[i].mtype = 2 /\ msgs[i].msg.seq < rcv.msg.seq

\* No queued message matches the selector.
NoMatch(sel) ==
    IF sel = 0 THEN msgs = <<>>
    ELSE IF sel > 0 THEN \A i \in 1..Len(msgs) : msgs[i].mtype # sel
    ELSE \A i \in 1..Len(msgs) : msgs[i].mtype > 0 - sel

C15_PeekLeavesQueue ==
    /\ [](("MSG_COPY" \in rcv.flags /\ rcv.pc = "msgrcv") =>
             ENABLED (MsgReadReturn /\ UNCHANGED queueRest))
    /\ [][ (ReceiveReturns /\ "MSG_COPY" \in rcv.flags) =>
              /\ msgs' = msgs
              /\ (/\ handles[rcv.h].id = msgid_cur
                  /\ rcv.mtype >= 0 /\ rcv.mtype < Len(msgs)) =>
                    rcv'.msg = msgs[rcv.mtype + 1].msg
         ]_vars

\* C15 witness: a peek at position 1 returned the second of two queued
\* messages, and both are still queued.
C15_Witness ==
    /\ rcv.pc = "idle" /\ "MSG_COPY" \in rcv.flags /\ rcv.mtype = 1
    /\ Len(msgs) = 2
    /\ rcv.msg = msgs[2].msg

\* C15 second witness: a peek past the end of the queue has failed.
PeekPastEnd_Witness ==
    /\ rcv.pc = "idle" /\ "MSG_COPY" \in rcv.flags
    /\ rcv.state = "ENOMSG" /\ Len(msgs) > 0

(***************************************************************************)
(* Properties of the HTTP server (SpecHttp, SpecConf).                     *)
(***************************************************************************)

\* C1: no update of client_count is lost: when every handler has returned
\* from on_accept, client_count is the number of GET / requests handled
\* minus the number of POST /dc requests that found the counter above 0.
C1_NoLostUpdate ==
    (\A h \in Handlers : hpc[h] = "closed") =>
       shm.client_count = numGet - numDec

\* C2: client_count >= 0 in every reachable state.
C2_ClientCountNonNegative == shm.client_count >= 0

\* C3: once a configuration load has completed, backlog, max_clients,
\* sensor_period and samples_moving_average_filter are each >= 1.
C3_ConfigPositiveOnceLoaded ==
    loads >= 1 =>
       /\ shm.backlog >= 1
       /\ shm.max_clients >= 1
       /\ shm.sensor_period >= 1
       /\ shm.samples_moving_average_filter >= 1

(***************************************************************************)
(* Properties of one connection (SpecConn).                                *)
(***************************************************************************)

\* The five (method, route) pairs the server answers other than by 404.
TableEntries ==
    {<<"GET", "/">>, <<"GET", "/images/favicon.ico">>, <<"GET", "/images/404.jpg">>,
     <<"GET", "/update">>, <<"POST", "/dc">>}

\* Handler h reads a request in this step.
ReadsRequest(h) == nreq'[h] = nreq[h] + 1

\* C16: every request whose (method, route) is not one of the five table
\* entries, also with a method other than GET and POST and whatever came
\* before it on the connection, gets the fixed 404 response and leaves the
\* shared record unchanged.
C16_UnknownRequestGets404 ==
    [][ \A h \in Handlers :
           /\ (ReadsRequest(h) /\ wire'[h] \notin TableEntries) =>
                 /\ res'[h] = NotFound
                 /\ hpc'[h] = "respond"
                 /\ shm' = shm
           /\ (hpc[h] \notin {"request", "closed", "died"} /\ wire[h] \notin TableEntries) =>
                 /\ shm' = shm
                 /\ nwrites'[h] > nwrites[h] => sock'[h].code = "NOT_FOUND"
      ]_vars

\* The statement of C16 for the requests with method GET or POST.
UnknownRouteGets404 ==
    [][ \A h \in Handlers :
           /\ (/\ ReadsRequest(h) /\ wire'[h] \notin TableEntries
               /\ wire'[h][1] \in {"GET", "POST"}) =>
                 /\ res'[h] = NotFound
                 /\ hpc'[h] = "respond"
                 /\ shm' = shm
           /\ (/\ hpc[h] \notin {"request", "closed", "died"} /\ wire[h] \notin TableEntries
               /\ wire[h][1] \in {"GET", "POST"}) =>
                 /\ shm' = shm
                 /\ nwrites'[h] > nwrites[h] => sock'[h].code = "NOT_FOUND"
      ]_vars

\* A GET of an unknown route sent after GET / has been answered by the 404.
UnknownRouteGets404_Witness ==
    \E h \in Handlers :
       /\ wire[h] = <<"GET", "/nope">> /\ nreq[h] = 2 /\ numGet = 1
       /\ hpc[h] = "request" /\ sock[h].code = "NOT_FOUND"

\* C17: POST /dc writes nothing to the socket and takes the handler back
\* to reading the next request; the counter at 0 stays 0, the counter at
\* c > 0 becomes c - 1, and no other field of the record changes.
C17_DisconnectDecrementsOnly ==
    [][ \A h \in Handlers :
           /\ (ReadsRequest(h) /\ wire'[h] = <<"POST", "/dc">>) =>
                 (hpc'[h] = "dc_test" /\ shm' = shm /\ nwrites' = nwrites)
           /\ (hpc[h] \in {"dc_test", "dc_load", "dc_store"} /\ hpc'[h] # hpc[h]) =>
                 /\ nwrites' = nwrites /\ sock' = sock
                 /\ hpc'[h] \in {"dc_load", "dc_store", "request"}
                 /\ [shm' EXCEPT !.client_count = shm.client_count] = shm
                 /\ hpc[h] # "dc_store" => shm' = shm
                 /\ (hpc[h] = "dc_test" /\ shm.client_count = 0) => hpc'[h] = "request"
                 /\ (hpc[h] = "dc_test" /\ shm.client_count > 0) => hpc'[h] = "dc_load"
                 /\ hpc[h] = "dc_store" =>
                       /\ shm.client_count > 0
                       /\ shm'.client_count = shm.client_count - 1
                       /\ hpc'[h] = "request"
      ]_vars

\* C17 witness: two POST /dc on a connection that started with the counter
\* at 1: the first decremented it, the second found 0; nothing was written.
C17_Witness ==
    \E h \in Handlers :
       /\ wire[h] = <<"POST", "/dc">> /\ nreq[h] = 2 /\ hpc[h] = "request"
       /\ numDec = 1 /\ numGet = 0
       /\ shm.client_count = 0
       /\ nwrites[h] = 0

(***************************************************************************)
(* Properties of the accept loop and of the reload (SpecConf).             *)
(***************************************************************************)

\* C18: a SIGUSR1 delivered at any point of the accept cycle leaves a
\* request being handled in progress, and its reload starts before the
\* next connection is accepted: no connection is accepted while the flag
\* the signal set is still waiting for on_start.
C18_ReloadBeforeNextAccept ==
    [][ /\ (mpc = "on_accept" /\ ~flag_update_conf /\ flag_update_conf') =>
              mpc' = "on_accept"
        /\ (mpc = "blocked" /\ mpc' = "on_accept") => ~flag_update_conf
      ]_vars

\* The part of C18 for a signal that finds the server blocked in accept or
\* handling a request: the request goes on, and accept is left for on_start.
SignalInAcceptReachesOnStart ==
    [][ (~flag_update_conf /\ flag_update_conf') =>
           /\ mpc = "on_accept" => mpc' = "on_accept"
           /\ mpc = "blocked" => mpc' = "on_start"
      ]_vars

\* update_configuration reads a line "key=value" of a recognized key in
\* this step.
ReadsLineOf(key) == nlines' = nlines + 1 /\ line'.key = key

\* C19: a line giving a recognized key the value 0 or a negative integer
\* leaves the field at its prior value, and the warning is printed.
C19_ZeroAndNegativeRejected ==
    [][ \A key \in ConfKeys :
           (ReadsLineOf(key) /\ line'.value \in {<<"0">>, <<"-", "3">>}) =>
              /\ shm'[key] = shm[key]
              /\ line'.msg = "invalid_value"
      ]_vars

\* The statement of C19 for the negative value alone.
NegativeValueRejected ==
    [][ \A key \in ConfKeys :
           (ReadsLineOf(key) /\ line'.value = <<"-", "3">>) =>
              /\ shm'[key] = shm[key]
              /\ line'.msg = "invalid_value"
      ]_vars

\* In a reload after the first, "backlog=-3" was read with backlog at 5.
NegativeValueRejected_Witness ==
    /\ line.key = "backlog" /\ line.value = <<"-", "3">>
    /\ line.msg = "invalid_value"
    /\ shm.backlog = 5 /\ loads = 1 /\ mpc = "read"

\* C20: a line giving a recognized key a value that is no number, such as
\* backlog=abc, leaves the field at its prior value, and the warning is
\* printed.
C20_UnparseableValueRejected ==
    [][ \A key \in ConfKeys :
           (ReadsLineOf(key) /\ line'.value = <<"a", "b", "c">>) =>
              /\ shm'[key] = shm[key]
              /\ line'.msg = "invalid_value"
      ]_vars

(***************************************************************************)
(* Properties of response() on a file target (SpecConn).                   *)
(***************************************************************************)
RespondsTo(h) == hpc[h] = "respond" /\ hpc'[h] # "respond"

\* C21: a response whose target is a file always completes: the handler
\* writes either the file with the prepared status or, when the file
\* cannot be opened or reads as zero bytes, the 404 response carrying the
\* not_found.html body with Content-Length equal to the bytes sent, and
\* then awaits the next request; it never stops without writing.
C21_FileErrorGets404 ==
    [][ \A h \in Handlers :
           (RespondsTo(h) /\ IsFileTarget(res[h])) =>
              /\ hpc'[h] = "request"
              /\ nwrites'[h] = nwrites[h] + 1
              /\ sock'[h] \in
                    {Written(res[h].code, res[h].mime_type, "body", "file " \o res[h].route),
                     Written("NOT_FOUND", "HTML", "body", "file /not_found.html")}
      ]_vars

(***************************************************************************)
(* Properties of Sem::set / Sem::get (SpecSetGet).                         *)
(***************************************************************************)
\* p's last completed call read the semaphore right after p's own set,
\* nothing having changed the semaphore in between
ReadBack(p, call) == sgcall[p] = call /\ sglast = p /\ sgpc[p] = "idle"

\* C22: for every value v of the legal range, values above 127 included,
\* set(v) followed by get() with no operation in between returns v, and
\* the assignment operator returns the value it assigned.
C22_SetGetRoundTrip ==
    \A p \in Procs :
       /\ ReadBack(p, "get") => sgret[p] = sgarg[p]
       /\ ReadBack(p, "assign") => sgret[p] = sgarg[p]

\* The round trip for the values that fit a char on every build (0..127).
SetGetRoundTripInChar ==
    \A p \in Procs :
       /\ (ReadBack(p, "get") /\ sgarg[p] <= 127) => sgret[p] = sgarg[p]
       /\ (ReadBack(p, "assign") /\ sgarg[p] <= 127) => sgret[p] = sgarg[p]

\* set(127) then get() returned 127, and an assignment of 127 returned 127.
SetGetRoundTripInChar_Witness ==
    /\ ReadBack(1, "get") /\ sgarg[1] = 127 /\ sgret[1] = 127
    /\ sgcall[2] = "assign" /\ sgarg[2] = 127 /\ sgret[2] = 127

(***************************************************************************)
(* Properties of the signal facility (SpecSignal).                         *)
(***************************************************************************)
WaitReturns == spc = "suspended" /\ spc' = "running"
HandlerRuns(s) == nran'[s] = nran[s] + 1

\* C23: Signal::wait(signal) returns only in the step in which the named
\* signal, pending for the caller, is delivered and its installed handler
\* runs; while the caller waits no handler of another signal runs, and
\* another blockable signal sent to it leaves it waiting.
C23_WaitReturnsOnNamedSignal ==
    [][ /\ WaitReturns =>
             /\ waitsig \in sigpend
             /\ sigdisp[waitsig] = "handler"
             /\ HandlerRuns(waitsig)
        /\ spc = "suspended" =>
             \A s \in Signals \ {waitsig} : nran'[s] = nran[s]
        /\ \A s \in Catchable \ {waitsig} :
             (spc = "suspended" /\ Raise(s)) =>
                 /\ spc' = "suspended"
                 /\ s \in sigpend'
                 /\ nran' = nran
      ]_vars

\* wait(SIGUSR1) has returned after the one run of the SIGUSR1 handler,
\* and the SIGALRM sent during the wait is still pending, its handler not
\* yet run.
C23_Witness ==
    /\ spc = "running" /\ waitsig = "SIGUSR1" /\ nran["SIGUSR1"] = 1
    /\ sigmask = {} /\ oldmask = {}
    /\ "SIGALRM" \in sigpend /\ sigdisp["SIGALRM"] = "handler" /\ nran["SIGALRM"] = 0

\* C25: the handler of a signal never runs while the thread's mask blocks
\* the signal; a signal sent while blocked becomes and stays pending, and
\* once it is unblocked its delivery is the thread's next step; block and
\* unblock change the mask bit of the named signal only, and unblock_all
\* leaves no signal blocked.
C25_BlockedSignalStaysPending ==
    /\ [](\A s \in Catchable :
            (s \in sigpend /\ s \notin sigmask /\ spc # "terminated") =>
               /\ ENABLED (SigHandle(s) /\ UNCHANGED signalRest)
               /\ ~ThreadRuns)
    /\ [][ \A s \in Catchable :
             /\ HandlerRuns(s) => s \notin sigmask
             /\ (s \in sigmask /\ Raise(s)) => (s \in sigpend' /\ nran' = nran)
             /\ (s \in sigmask /\ s \in sigmask' /\ s \in sigpend /\ sigdisp'[s] # "ignore") =>
                   s \in sigpend'
             /\ Block(s) => (s \in sigmask' /\ sigmask' \ {s} = sigmask \ {s})
             /\ Unblock(s) => (s \notin sigmask' /\ sigmask' \ {s} = sigmask \ {s})
             /\ UnblockAll => sigmask' = {}
         ]_vars

\* SIGUSR1, sent while blocked, is pending with its handler installed and
\* not yet run; SIGALRM was handled before it was blocked as well.
C25_Witness ==
    /\ "SIGUSR1" \in sigmask /\ "SIGUSR1" \in sigpend
    /\ sigdisp["SIGUSR1"] = "handler" /\ nran["SIGUSR1"] = 0
    /\ "SIGALRM" \in sigmask /\ nran["SIGALRM"] = 1

(***************************************************************************)
(* Properties of the timer (SpecTimer).                                    *)
(***************************************************************************)
AlarmRaised == nalarm' = nalarm + 1
TimerCanExpire == ENABLED (TimerExpire /\ UNCHANGED timerRest)

\* a call arming the timer with period p leaves it armed for exactly p:
\* seconds*1000 + microseconds/1000 = p, once or with interval p
ArmsExactly(p) ==
    /\ SetTimerSingleShot(p) =>
          /\ tmret' = 0
          /\ TimerMs(itimer'.value) = p
          /\ itimer'.interval = TvZero
          /\ nalarm' = 0
    /\ SetTimerPeriodic(p) =>
          /\ tmret' = 0
          /\ TimerMs(itimer'.value) = p
          /\ itimer'.interval = itimer'.value
          /\ nalarm' = 0

\* what the armed timer does: a single-shot timer raises the signal once
\* and is then off, a periodic timer is armed again with its interval
\* after every expiry, a timer that is off raises nothing
TimerRuns ==
    /\ (itimer.value # TvZero /\ nalarm < MaxAlarms) => TimerCanExpire
    /\ itimer.value = TvZero => ~TimerCanExpire
    /\ itimer.interval = TvZero => (nalarm <= 1 /\ (nalarm = 1 => itimer.value = TvZero))
    /\ itimer.interval # TvZero => itimer.value = itimer.interval

TimerSteps ==
    /\ UnsetTimer => (itimer' = TimerOff /\ nalarm' = 0)
    /\ AlarmRaised =>
          /\ itimer.value # TvZero
          /\ itimer'.value = itimer.interval
          /\ itimer'.interval = itimer.interval

\* C24: for every period p >= 1 ms the timer armed by
\* set_timer_single_shot(p) / set_timer_periodic(p) is armed for exactly p
\* (seconds*1000 + microseconds/1000 = p) and raises the signal once,
\* respectively again after every p; after unset_timer no signal is
\* raised until the timer is armed again, and arming replaces the timer
\* armed before.
C24_TimerRaisesAsArmed ==
    /\ []TimerRuns
    /\ [][TimerSteps /\ \A p \in Periods : ArmsExactly(p)]_vars

\* The statement of C24 for the periods p with p*1000 inside the range of
\* the build's time_t.
TimerRaisesAsArmedInRange ==
    /\ []TimerRuns
    /\ [][TimerSteps /\ \A p \in Periods : ~Overflows(p) => ArmsExactly(p)]_vars

\* A single-shot timer of 1500 ms has raised its one signal and is off, on
\* the build with the 32-bit time_t.
TimerRaisesAsArmedInRange_Witness ==
    /\ build.time_bits = 32
    /\ itimer = TimerOff /\ nalarm = 1 /\ tmret = 0

\* A periodic timer of 2147483 ms, the longest period in range of a 32-bit
\* time_t, has expired twice and is armed again.
TimerPeriodicInRange_Witness ==
    /\ build.time_bits = 32
    /\ nalarm = 2
    /\ itimer.interval = [sec |-> 2147, usec |-> 483000]
    /\ itimer.value = itimer.interval

(***************************************************************************)
(* Properties of the reload signal (SpecReload).                           *)
(***************************************************************************)
\* the accept loop keeps invoking on_start
KeepsInvokingOnStart == []<>(mpc = "on_start")
\* update_configuration has been entered and is about to open the file
ReloadStarts == mpc = "open"

\* C26: provided the accept loop keeps invoking on_start, every delivery
\* of SIGUSR1 (the flag is set by it), also one between the test and the
\* clearing of the flag or during a reload, is followed by a reload that
\* opens the file after the delivery.
C26_NoReloadRequestLost ==
    KeepsInvokingOnStart =>
       /\ flag_update_conf ~> ReloadStarts
       /\ ReloadStarts ~> (mpc \in {"read", "accept"})

\* SIGUSR1 has arrived while the reload that follows the first load is
\* reading the file.
C26_Witness ==
    /\ mpc = "read" /\ flag_update_conf /\ loads = 1

=============================================================================
